---------------------------- MODULE Spec2Model ----------------------------
(***************************************************************************)
(* A model of the KJV text tooling of scriptureLensai2.0:                  *)
(*   scripts/export_bible_json.py  (parse_master_numbered, parse_book_txt, *)
(*                                  upload_book, the Sink loop of main)    *)
(*   scripts/split_bible_kjv.py    (is_heading, split_books,               *)
(*                                  clean_book_lines)                      *)
(* Lines of text are TLA+ strings; the regular expressions and the string  *)
(* methods of the source are operators that work character by character.   *)
(***************************************************************************)
EXTENDS Integers, Sequences, FiniteSets, TLC

(***************************************************************************)
(* Bounds of the model.                                                    *)
(***************************************************************************)
\* number of input lines the numbered-format parser reads
MaxLines == 3
\* number of lines of a per-book .txt file
MaxTxtLines == 3
\* number of content lines of a book that clean_book_lines reads
MaxCleanLines == 3
\* number of lines of a heading-convention master file
MaxSplitLines == 4
\* numbers of verse lines, BOOK headings and other lines of a file whose
\* format is detected
MaxVerseLines == 201
MaxHeadingLines == 31
MaxOtherLines == 1
\* number of uploads the endpoint answers with a status >= 300 in one run
MaxFailures == 1

(***************************************************************************)
(* Python's str methods and int(), on strings.                             *)
(***************************************************************************)
Ch(s, i) == SubSeq(s, i, i)

Digits == "0123456789"
UpperLetters == "ABCDEFGHIJKLMNOPQRSTUVWXYZ"
LowerLetters == "abcdefghijklmnopqrstuvwxyz"

IsDigit(c) == \E i \in 1..10 : Ch(Digits, i) = c
IsSpace(c) == c = " " \/ c = "\t" \/ c = "\n" \/ c = "\r"
IsLowerCh(c) == \E i \in 1..26 : Ch(LowerLetters, i) = c
IsUpperCh(c) == \E i \in 1..26 : Ch(UpperLetters, i) = c

DigitVal(c) == CHOOSE d \in 0..9 : Ch(Digits, d + 1) = c
LowerCh(c) ==
  IF IsUpperCh(c)
    THEN Ch(LowerLetters, CHOOSE i \in 1..26 : Ch(UpperLetters, i) = c)
    ELSE c
UpperCh(c) ==
  IF IsLowerCh(c)
    THEN Ch(UpperLetters, CHOOSE i \in 1..26 : Ch(LowerLetters, i) = c)
    ELSE c

RECURSIVE Lower(_)
Lower(s) == IF s = "" THEN "" ELSE LowerCh(Head(s)) \o Lower(Tail(s))

RECURSIVE Upper(_)
Upper(s) == IF s = "" THEN "" ELSE UpperCh(Head(s)) \o Upper(Tail(s))

RECURSIVE LStrip(_)
LStrip(s) == IF s # "" /\ IsSpace(Head(s)) THEN LStrip(Tail(s)) ELSE s

RECURSIVE RStrip(_)
RStrip(s) ==
  IF s # "" /\ IsSpace(Ch(s, Len(s)))
    THEN RStrip(SubSeq(s, 1, Len(s) - 1))
    ELSE s

Strip(s) == RStrip(LStrip(s))

\* s.lstrip('0')
RECURSIVE LStripZeros(_)
LStripZeros(s) == IF s # "" /\ Head(s) = "0" THEN LStripZeros(Tail(s)) ELSE s

\* int(s) of a string of decimal digits
RECURSIVE ParseInt(_)
ParseInt(s) ==
  IF s = "" THEN 0
  ELSE 10 * ParseInt(SubSeq(s, 1, Len(s) - 1)) + DigitVal(Ch(s, Len(s)))

\* str(n), for n >= 0
RECURSIVE ToStr(_)
ToStr(n) ==
  IF n < 10 THEN Ch(Digits, n + 1)
  ELSE ToStr(n \div 10) \o Ch(Digits, (n % 10) + 1)

\* a in s, for strings
Contains(s, a) ==
  \E i \in 1..(Len(s) - Len(a) + 1) : SubSeq(s, i, i + Len(a) - 1) = a

\* s.startswith(p)
StartsWith(s, p) == Len(s) >= Len(p) /\ SubSeq(s, 1, Len(p)) = p

\* the suffix of s from position i on (s[i-1:] in Python)
From(s, i) == IF i > Len(s) THEN "" ELSE SubSeq(s, i, Len(s))

\* the first position >= i of s that holds no whitespace (Len(s)+1 if none)
RECURSIVE SkipSpace(_, _)
SkipSpace(s, i) ==
  IF i <= Len(s) /\ IsSpace(Ch(s, i)) THEN SkipSpace(s, i + 1) ELSE i

\* the first position >= i of s that holds no digit (Len(s)+1 if none)
RECURSIVE SkipDigits(_, _)
SkipDigits(s, i) ==
  IF i <= Len(s) /\ IsDigit(Ch(s, i)) THEN SkipDigits(s, i + 1) ELSE i

(***************************************************************************)
(* The canon.                                                              *)
(***************************************************************************)
BOOKS == <<
  "Genesis", "Exodus", "Leviticus", "Numbers", "Deuteronomy", "Joshua",
  "Judges", "Ruth", "1 Samuel", "2 Samuel", "1 Kings", "2 Kings",
  "1 Chronicles", "2 Chronicles", "Ezra", "Nehemiah", "Esther", "Job",
  "Psalms", "Proverbs", "Ecclesiastes", "Song of Solomon", "Isaiah",
  "Jeremiah", "Lamentations", "Ezekiel", "Daniel", "Hosea", "Joel", "Amos",
  "Obadiah", "Jonah", "Micah", "Nahum", "Habakkuk", "Zephaniah", "Haggai",
  "Zechariah", "Malachi", "Matthew", "Mark", "Luke", "John", "Acts",
  "Romans", "1 Corinthians", "2 Corinthians", "Galatians", "Ephesians",
  "Philippians", "Colossians", "1 Thessalonians", "2 Thessalonians",
  "1 Timothy", "2 Timothy", "Titus", "Philemon", "Hebrews", "James",
  "1 Peter", "2 Peter", "1 John", "2 John", "3 John", "Jude", "Revelation" >>

BookNames == { BOOKS[i] : i \in 1..Len(BOOKS) }

\* BOOK_INDEX[b]: the 1-based position of b in BOOKS
BOOK_INDEX(b) == CHOOSE i \in 1..Len(BOOKS) : BOOKS[i] = b

\* Python's None, for a variable that otherwise holds a book name
None == "<None>"
\* Python's None, for a variable that otherwise holds a chapter or verse number
NoNumber == -1
\* Python's None, for the reference to the last verse
NoVerse == << >>

\* seq[i] of a Python list: a negative i counts from the end
InRange(seq, i) == -Len(seq) <= i /\ i < Len(seq)
PyIndex(seq, i) == IF i >= 0 THEN seq[i + 1] ELSE seq[Len(seq) + i + 1]

(***************************************************************************)
(* The patterns of the numbered master format.                             *)
(***************************************************************************)
\* NUM_VERSE_RE.match(s):  ^(\d{2}):(\d{3}):(\d{3})\s+(.*)$
NumVerseMatch(s) ==
  /\ Len(s) >= 11
  /\ \A i \in {1, 2, 4, 5, 6, 8, 9, 10} : IsDigit(Ch(s, i))
  /\ Ch(s, 3) = ":"
  /\ Ch(s, 7) = ":"
  /\ IsSpace(Ch(s, 11))

\* its groups 1..4: \s+ takes the whole run of whitespace, (.*) the rest
NumVerseGroups(s) ==
  << SubSeq(s, 1, 2), SubSeq(s, 4, 6), SubSeq(s, 8, 10),
     From(s, SkipSpace(s, 11)) >>

\* BOOK_HEADING_RE.match(s):  ^BOOK\s+(\d{1,2})\s+(.+)$  (re.IGNORECASE)
\* d: where the number starts; e: where it ends (one digit, or two when the
\* next character is a digit too); n: where the whitespace after it ends.
BookHeadingNumStart(s) == SkipSpace(s, 5)
BookHeadingNumEnd(s) ==
  LET d == BookHeadingNumStart(s)
  IN  IF d + 1 <= Len(s) /\ IsDigit(Ch(s, d + 1)) THEN d + 2 ELSE d + 1

BookHeadingMatch(s) ==
  /\ Len(s) >= 4
  /\ Upper(SubSeq(s, 1, 4)) = "BOOK"
  /\ LET d == BookHeadingNumStart(s)
         e == BookHeadingNumEnd(s)
         n == SkipSpace(s, e)
     IN  /\ d > 5
         /\ d <= Len(s)
         /\ IsDigit(Ch(s, d))
         /\ n > e
         \* (.+) needs a character: the rest of the line, or, when the line
         \* ends in the whitespace, the last of at least two blanks
         /\ (n <= Len(s) \/ n - e >= 2)

\* its groups 1 and 2
BookHeadingGroups(s) ==
  LET d == BookHeadingNumStart(s)
      e == BookHeadingNumEnd(s)
      n == SkipSpace(s, e)
  IN  << SubSeq(s, d, e - 1),
         IF n <= Len(s) THEN From(s, n) ELSE Ch(s, Len(s)) >>

(***************************************************************************)
(* parse_master_numbered (export_bible_json.py).                           *)
(***************************************************************************)
\* The lines an input of the numbered parser is made of.
MasterLines == {
  "BOOK 01 Genesis",
  "BOOK 02 genesis",
  "BOOK 2 Foo",
  "BOOK 99 Foo",
  "01:001:001 In the beginning",
  "01:001:003 And God said",
  "01:002:001 Thus the heavens",
  "02:001:001 Now these are",
  "00:001:001 out of range",
  "67:001:001 past the canon",
  " 01:001:002 And the earth",
  "the heaven and the earth.",
  "  " }

VARIABLES
  lines,                \* parse_master_numbered: the lines read so far
  books,                \* name -> BookJSON
  current_book,         \* a name of BOOKS, or None
  current_chapter_num,  \* a number, or NoNumber
  last_verse,           \* NoVerse, or <<book, chapter index, verse index>>
  m_pc                  \* "loop", "returned", "raised" (IndexError)

mvars == << lines, books, current_book, current_chapter_num, last_verse, m_pc >>

VARIABLES
  args,      \* main: the command line (input, books_dir, output_dir, upload)
  s_pc,      \* "start", "loop", "done", "exit1", "raised"
  s_keys,    \* the keys of main's books dict
  s_i,       \* the position in BOOKS of the Sink loop
  s_sub,     \* "top" of the loop body, or "written" (after write_json)
  events     \* what the Sink did: [op, book, ok], in order

VARIABLE
  s_files    \* the books whose .txt file main found in the books directory

svars == << args, s_pc, s_keys, s_i, s_sub, events, s_files >>

VARIABLES
  t_stem,      \* parse_book_txt: path.stem, the file's name without .txt
  t_lines,     \* the lines of the file read so far
  t_chapters,  \* chapters
  t_current,   \* current_chapter: its index in chapters, 0 for None
  t_last,      \* last_verse: NoVerse, or <<chapter index, verse index>>
  t_pc,        \* "loop", "returned"
  t_file       \* the lines of the file when clean_book_lines wrote it, else
               \* AnyFile: the file holds any lines of TxtLines

tvars == << t_stem, t_lines, t_chapters, t_current, t_last, t_pc, t_file >>

VARIABLES
  c_lines,     \* clean_book_lines: the lines read so far
  normalized,  \* normalized
  c_chapter,   \* current_chapter: a number, or NoNumber
  c_last,      \* last_verse_in_chapter: a number, or NoNumber
  c_pc,        \* "loop", "returned", "written" (the book's file is written)
  c_input      \* the lines argument when clean_book_lines runs on its own
               \* result, else AnyLines: the argument holds any lines of
               \* CleanLines

cvars == << c_lines, normalized, c_chapter, c_last, c_pc, c_input >>

VARIABLES
  h_lines,         \* split_books: the lines read so far
  books_content,   \* book name -> content lines
  h_current,       \* current: a book name, or None
  heading_buffer,  \* heading_buffer
  h_pc             \* "loop", "returned"

hvars == << h_lines, books_content, h_current, heading_buffer, h_pc >>

VARIABLES
  e_verses,       \* exporter's detect_numbered_format: verses, so far
  e_books,        \* books, so far
  verse_matches,  \* splitter's detect_numbered_format: verse_matches
  book_matches,   \* book_matches
  s_detected,     \* the splitter's scan returned True (line 164)
  d_others,       \* number of lines read that match neither pattern
  d_result,       \* << the exporter's answer, the splitter's answer >>
  d_pc            \* "scan", "returned"

dvars == << e_verses, e_books, verse_matches, book_matches, s_detected,
            d_others, d_result, d_pc >>

vars == << mvars, svars, tvars, cvars, hvars, dvars >>

\* what the numbered parser leaves alone
notMaster == << svars, tvars, cvars, hvars, dvars >>
\* what main leaves alone
notSink == << mvars, tvars, cvars, hvars, dvars >>
\* what parse_book_txt leaves alone
notTxt == << mvars, svars, cvars, hvars, dvars >>
\* what clean_book_lines leaves alone
notClean == << mvars, svars, tvars, hvars, dvars >>
\* what split_books leaves alone
notSplit == << mvars, svars, tvars, cvars, dvars >>
\* what the two detect_numbered_format leave alone
notDetect == << mvars, svars, tvars, cvars, hvars >>

\* lines 118-124: the book a BOOK heading names, by name, else by ordinal
ResolveHeading(num, name_part) ==
  IF \E i \in 1..Len(BOOKS) : Lower(BOOKS[i]) = Lower(name_part)
    THEN BOOKS[CHOOSE i \in 1..Len(BOOKS) :
                 /\ Lower(BOOKS[i]) = Lower(name_part)
                 /\ \A j \in 1..(i - 1) : Lower(BOOKS[j]) # Lower(name_part)]
    ELSE IF 1 <= num /\ num <= Len(BOOKS) THEN BOOKS[num]
    ELSE None

\* line 135, 136: int(raw.lstrip('0') or '0')
FieldInt(raw) ==
  LET t == LStripZeros(raw) IN ParseInt(IF t = "" THEN "0" ELSE t)

\* a parser that trusts the heading once one was read
SwitchesBookOnlyWithoutHeading(cur, book_num) == cur = None

\* line 137: does the verse line start another book than the current one
SwitchesBook(cur, book_num) ==
  cur = None \/ cur # PyIndex(BOOKS, book_num - 1)

\* AppendVerse with the verse put at the head of the chapter's verses
PrependVerse(chapters, opens, chapter, verse_obj) ==
  LET chs == IF opens
               THEN Append(chapters, [number |-> chapter, verses |-> << >>])
               ELSE chapters
      k == Len(chs)
  IN  [chs EXCEPT ![k].verses = << verse_obj >> \o @]

\* lines 142-148: the chapters of the book after the verse is appended
AppendVerse(chapters, opens, chapter, verse_obj) ==
  LET chs == IF opens
               THEN Append(chapters, [number |-> chapter, verses |-> << >>])
               ELSE chapters
      k == Len(chs)
  IN  [chs EXCEPT ![k].verses = Append(@, verse_obj)]

\* a join that puts no space before the continuation
JoinTextWithoutSpace(text, ln) == text \o Strip(ln)

\* line 153: last_verse['text'] + ' ' + ln.strip()
JoinText(text, ln) == text \o " " \o Strip(ln)

\* lines 155-157: drop the chapters without verses
TrimEmpty(chapters) == SelectSeq(chapters, LAMBDA c : c.verses # << >>)

MasterInit ==
  /\ lines = << >>
  /\ books = [b \in BookNames |->
                [book |-> b, order |-> BOOK_INDEX(b), chapters |-> << >>]]
  /\ current_book = None
  /\ current_chapter_num = NoNumber
  /\ last_verse = NoVerse
  /\ m_pc = "loop"

MasterCanRead == m_pc = "loop" /\ Len(lines) < MaxLines

\* lines 110-112: a blank line
MasterBlank(ln) ==
  /\ MasterCanRead
  /\ UNCHANGED notMaster
  /\ Strip(RStrip(ln)) = ""
  /\ lines' = Append(lines, ln)
  /\ UNCHANGED << books, current_book, current_chapter_num, last_verse, m_pc >>

\* a BOOK heading that leaves the open chapter number as it is
MasterBookHeadingKeepsChapter(ln) ==
  /\ MasterCanRead
  /\ UNCHANGED notMaster
  /\ Strip(RStrip(ln)) # ""
  /\ BookHeadingMatch(Strip(RStrip(ln)))
  /\ LET g == BookHeadingGroups(Strip(RStrip(ln)))
     IN  current_book' = ResolveHeading(ParseInt(g[1]), Strip(g[2]))
  /\ last_verse' = NoVerse
  /\ lines' = Append(lines, ln)
  /\ UNCHANGED << books, current_chapter_num, m_pc >>

\* a BOOK heading that leaves the last-verse reference as it is
MasterBookHeadingKeepsVerse(ln) ==
  /\ MasterCanRead
  /\ UNCHANGED notMaster
  /\ Strip(RStrip(ln)) # ""
  /\ BookHeadingMatch(Strip(RStrip(ln)))
  /\ LET g == BookHeadingGroups(Strip(RStrip(ln)))
     IN  current_book' = ResolveHeading(ParseInt(g[1]), Strip(g[2]))
  /\ current_chapter_num' = NoNumber
  /\ lines' = Append(lines, ln)
  /\ UNCHANGED << books, last_verse, m_pc >>

\* lines 113-128: a BOOK heading
MasterBookHeading(ln) ==
  /\ MasterCanRead
  /\ UNCHANGED notMaster
  /\ Strip(RStrip(ln)) # ""
  /\ BookHeadingMatch(Strip(RStrip(ln)))
  /\ LET g == BookHeadingGroups(Strip(RStrip(ln)))
     IN  current_book' = ResolveHeading(ParseInt(g[1]), Strip(g[2]))
  /\ current_chapter_num' = NoNumber
  /\ last_verse' = NoVerse
  /\ lines' = Append(lines, ln)
  /\ UNCHANGED << books, m_pc >>

MasterIsVerse(ln) ==
  /\ Strip(RStrip(ln)) # ""
  /\ ~BookHeadingMatch(Strip(RStrip(ln)))
  /\ NumVerseMatch(RStrip(ln))

\* lines 129-150: a verse line
MasterVerseLine(ln) ==
  /\ MasterCanRead
  /\ UNCHANGED notMaster
  /\ MasterIsVerse(ln)
  /\ LET g == NumVerseGroups(RStrip(ln))
         book_num == ParseInt(g[1])
         text == Strip(g[4])
         chapter == FieldInt(g[2])
         verse == FieldInt(g[3])
     IN  /\ InRange(BOOKS, book_num - 1)
         /\ LET sw == SwitchesBook(current_book, book_num)
                cb == IF sw THEN PyIndex(BOOKS, book_num - 1) ELSE current_book
                ccn == IF sw THEN NoNumber ELSE current_chapter_num
                chs == AppendVerse(books[cb].chapters, ccn # chapter, chapter,
                                   [number |-> verse, text |-> text])
            IN  /\ current_book' = cb
                /\ current_chapter_num' = chapter
                /\ books' = [books EXCEPT ![cb].chapters = chs]
                /\ last_verse' = << cb, Len(chs), Len(chs[Len(chs)].verses) >>
  /\ lines' = Append(lines, ln)
  /\ UNCHANGED m_pc

\* lines 137, 138: BOOKS[book_num-1] raises IndexError, which nothing catches
MasterVerseRaises(ln) ==
  /\ MasterCanRead
  /\ UNCHANGED notMaster
  /\ MasterIsVerse(ln)
  /\ ~InRange(BOOKS, ParseInt(NumVerseGroups(RStrip(ln))[1]) - 1)
  /\ m_pc' = "raised"
  /\ lines' = Append(lines, ln)
  /\ UNCHANGED << books, current_book, current_chapter_num, last_verse >>

\* lines 151-153: any other line continues the last verse, if there is one
MasterContinuation(ln) ==
  /\ MasterCanRead
  /\ UNCHANGED notMaster
  /\ Strip(RStrip(ln)) # ""
  /\ ~BookHeadingMatch(Strip(RStrip(ln)))
  /\ ~NumVerseMatch(RStrip(ln))
  /\ IF last_verse # NoVerse
       THEN books' = [books EXCEPT
              ![last_verse[1]].chapters[last_verse[2]].verses[last_verse[3]].text =
                 JoinText(@, RStrip(ln))]
       ELSE UNCHANGED books
  /\ lines' = Append(lines, ln)
  /\ UNCHANGED << current_book, current_chapter_num, last_verse, m_pc >>

\* lines 154-158: the end of the input
MasterReturn ==
  /\ m_pc = "loop"
  /\ UNCHANGED notMaster
  /\ books' = [b \in BookNames |->
                 [books[b] EXCEPT !.chapters = TrimEmpty(@)]]
  /\ m_pc' = "returned"
  /\ UNCHANGED << lines, current_book, current_chapter_num, last_verse >>

MasterNext ==
  \/ \E ln \in MasterLines : MasterBlank(ln)
  \/ \E ln \in MasterLines : MasterBookHeading(ln)
  \/ \E ln \in MasterLines : MasterVerseLine(ln)
  \/ \E ln \in MasterLines : MasterVerseRaises(ln)
  \/ \E ln \in MasterLines : MasterContinuation(ln)
  \/ MasterReturn

(***************************************************************************)
(* main (export_bible_json.py): loading the books, and the Sink loop.      *)
(***************************************************************************)
\* the .txt files a books directory may hold
DirBooks == { "Genesis", "Exodus", "Psalms", "Revelation" }

\* the status codes the endpoint answers with
Statuses == { 200, 299, 300, 500 }

\* the status codes counted as a failure (line 184)
STATUS_FAILED == 300

\* upload_book, line 184: the branch taken for a status code
UploadOk(status) == ~(status >= STATUS_FAILED)

\* the number of uploads the endpoint refused so far
RECURSIVE Failures(_)
Failures(evs) ==
  IF evs = << >> THEN 0
  ELSE (IF Head(evs).ok THEN 0 ELSE 1) + Failures(Tail(evs))

\* main is not running
SinkIdle ==
  /\ args = [input |-> FALSE, books_dir |-> FALSE, output_dir |-> FALSE,
             upload |-> FALSE]
  /\ s_pc = "idle"
  /\ s_keys = {}
  /\ s_files = {}
  /\ s_i = 0
  /\ s_sub = "top"
  /\ events = << >>

\* lines 190-201: main starts with some command line
SinkInit ==
  /\ args \in [input : BOOLEAN, books_dir : BOOLEAN, output_dir : BOOLEAN,
                upload : BOOLEAN]
  /\ s_pc = "start"
  /\ s_keys = {}
  /\ s_files = {}
  /\ s_i = 0
  /\ s_sub = "top"
  /\ events = << >>

\* lines 203-205: neither --input nor --books-dir
MainNoSource ==
  /\ s_pc = "start"
  /\ ~args.input /\ ~args.books_dir
  /\ s_pc' = "exit1"
  /\ UNCHANGED << args, s_keys, s_i, s_sub, events, s_files >>
  /\ UNCHANGED notSink

\* lines 209-219: the master file is missing, or is not in numbered format
MainInputUnusable ==
  /\ s_pc = "start"
  /\ args.input
  /\ s_pc' = "exit1"
  /\ UNCHANGED << args, s_keys, s_i, s_sub, events, s_files >>
  /\ UNCHANGED notSink

\* lines 214-216: parse_master_numbered returns its 66 books
MainParseMaster ==
  /\ s_pc = "start"
  /\ args.input
  /\ s_keys' = BookNames
  /\ s_pc' = "loop"
  /\ s_i' = 1
  /\ UNCHANGED << args, s_sub, events, s_files >>
  /\ UNCHANGED notSink

\* line 216: parse_master_numbered raises IndexError (line 137)
MainParseMasterRaises ==
  /\ s_pc = "start"
  /\ args.input
  /\ s_pc' = "raised"
  /\ UNCHANGED << args, s_keys, s_i, s_sub, events, s_files >>
  /\ UNCHANGED notSink

\* lines 221-224: the books directory is missing
MainBooksDirMissing ==
  /\ s_pc = "start"
  /\ ~args.input /\ args.books_dir
  /\ s_pc' = "exit1"
  /\ UNCHANGED << args, s_keys, s_i, s_sub, events, s_files >>
  /\ UNCHANGED notSink

\* lines 225-230: a book is loaded for every .txt file that exists
MainReadBooksDir(files) ==
  /\ s_pc = "start"
  /\ ~args.input /\ args.books_dir
  /\ s_keys' = { BOOKS[i] : i \in { k \in 1..Len(BOOKS) : BOOKS[k] \in files } }
  /\ s_files' = files
  /\ s_pc' = "loop"
  /\ s_i' = 1
  /\ UNCHANGED << args, s_sub, events >>
  /\ UNCHANGED notSink

\* SinkAtUpload with the upload not waiting for the write
SinkAtUploadAtOnce == s_sub = "written" \/ s_sub = "top"

SinkAtBook == s_pc = "loop" /\ s_i <= Len(BOOKS)
\* the loop body is at the upload of the book (line 242)
SinkAtUpload == s_sub = "written" \/ (s_sub = "top" /\ ~args.output_dir)

\* lines 236-238: a book that is not in books
SinkSkip ==
  /\ SinkAtBook
  /\ s_sub = "top"
  /\ BOOKS[s_i] \notin s_keys
  /\ s_i' = s_i + 1
  /\ UNCHANGED << args, s_pc, s_keys, s_sub, events, s_files >>
  /\ UNCHANGED notSink

\* lines 240-241: write_json returns
SinkWrite ==
  /\ SinkAtBook
  /\ s_sub = "top"
  /\ BOOKS[s_i] \in s_keys
  /\ args.output_dir
  /\ events' = Append(events, [op |-> "write", book |-> BOOKS[s_i], ok |-> TRUE])
  /\ s_sub' = "written"
  /\ UNCHANGED << args, s_pc, s_keys, s_i, s_files >>
  /\ UNCHANGED notSink

\* line 163: write_text raises OSError, which nothing catches
SinkWriteRaises ==
  /\ SinkAtBook
  /\ s_sub = "top"
  /\ BOOKS[s_i] \in s_keys
  /\ args.output_dir
  /\ s_pc' = "raised"
  /\ UNCHANGED << args, s_keys, s_i, s_sub, events, s_files >>
  /\ UNCHANGED notSink

\* lines 242-243, 183-187: upload_book gets an answer
SinkUpload(status) ==
  /\ SinkAtBook
  /\ BOOKS[s_i] \in s_keys
  /\ SinkAtUpload
  /\ args.upload
  /\ UploadOk(status) \/ Failures(events) < MaxFailures
  /\ events' = Append(events, [op |-> "upload", book |-> BOOKS[s_i],
                               ok |-> UploadOk(status)])
  /\ s_i' = s_i + 1
  /\ s_sub' = "top"
  /\ UNCHANGED << args, s_pc, s_keys, s_files >>
  /\ UNCHANGED notSink

\* line 183: requests.post raises (no connection, timeout), uncaught
SinkUploadRaises ==
  /\ SinkAtBook
  /\ BOOKS[s_i] \in s_keys
  /\ SinkAtUpload
  /\ args.upload
  /\ s_pc' = "raised"
  /\ UNCHANGED << args, s_keys, s_i, s_sub, events, s_files >>
  /\ UNCHANGED notSink

\* line 242: no upload was asked for
SinkNoUpload ==
  /\ SinkAtBook
  /\ BOOKS[s_i] \in s_keys
  /\ SinkAtUpload
  /\ ~args.upload
  /\ s_i' = s_i + 1
  /\ s_sub' = "top"
  /\ UNCHANGED << args, s_pc, s_keys, events, s_files >>
  /\ UNCHANGED notSink

\* line 245: print('Done.')
SinkDone ==
  /\ s_pc = "loop"
  /\ s_i = Len(BOOKS) + 1
  /\ s_pc' = "done"
  /\ UNCHANGED << args, s_keys, s_i, s_sub, events, s_files >>
  /\ UNCHANGED notSink

SinkNext ==
  \/ MainNoSource
  \/ MainInputUnusable
  \/ MainParseMaster
  \/ MainParseMasterRaises
  \/ MainBooksDirMissing
  \/ \E files \in SUBSET DirBooks : MainReadBooksDir(files)
  \/ SinkSkip
  \/ SinkWrite
  \/ SinkWriteRaises
  \/ \E status \in Statuses : SinkUpload(status)
  \/ SinkUploadRaises
  \/ SinkNoUpload
  \/ SinkDone

(***************************************************************************)
(* parse_book_txt (export_bible_json.py).                                  *)
(***************************************************************************)
\* ^KEYWORD\s+(\d+)$ with re.IGNORECASE, for a keyword in upper case
KeywordNumberMatch(s, keyword) ==
  /\ Len(s) > Len(keyword)
  /\ Upper(SubSeq(s, 1, Len(keyword))) = keyword
  /\ LET d == SkipSpace(s, Len(keyword) + 1)
         e == SkipDigits(s, d)
     IN  /\ d > Len(keyword) + 1
         /\ e > d
         /\ e = Len(s) + 1

\* its group 1
KeywordNumberGroup(s, keyword) == From(s, SkipSpace(s, Len(keyword) + 1))

\* CHAPTER_RE.match(s):  ^Chapter\s+(\d+)$  (re.IGNORECASE)
ChapterMatch(s) == KeywordNumberMatch(s, "CHAPTER")
ChapterGroup(s) == KeywordNumberGroup(s, "CHAPTER")

\* VERSE_RE.match(s):  ^(\d+)\s+(.*)$
VerseMatch(s) ==
  LET e == SkipDigits(s, 1)
  IN  e > 1 /\ e <= Len(s) /\ IsSpace(Ch(s, e))

\* its groups 1 and 2
VerseGroups(s) ==
  LET e == SkipDigits(s, 1)
  IN  << SubSeq(s, 1, e - 1), From(s, SkipSpace(s, e)) >>

\* b.replace(' ', '')
RECURSIVE RemoveSpaces(_)
RemoveSpaces(s) ==
  IF s = "" THEN ""
  ELSE (IF Head(s) = " " THEN "" ELSE Head(s)) \o RemoveSpaces(Tail(s))

\* lines 63-68: the canon name the file's stem stands for, else the stem
BookOfStem(stem) ==
  IF \E i \in 1..Len(BOOKS) : RemoveSpaces(BOOKS[i]) = stem
    THEN BOOKS[CHOOSE i \in 1..Len(BOOKS) :
                 /\ RemoveSpaces(BOOKS[i]) = stem
                 /\ \A j \in 1..(i - 1) : RemoveSpaces(BOOKS[j]) # stem]
    ELSE stem

\* line 95: BOOK_INDEX.get(book_name, 0)
OrderOf(name) == IF name \in BookNames THEN BOOK_INDEX(name) ELSE 0

\* line 95: the BookJSON parse_book_txt returns
TxtResult ==
  [book |-> BookOfStem(t_stem), order |-> OrderOf(BookOfStem(t_stem)),
   chapters |-> t_chapters]

\* the file names (without .txt) a books directory may hold
TxtStems == { "Genesis", "SongofSolomon", "Notes" }

\* the lines a per-book file is made of
TxtLines == {
  "Chapter 1",
  "chapter  2",
  "1 In the beginning",
  "2 And the earth",
  "1   Thus the heavens ",
  "the heaven and the earth.",
  "Chapter 3 (cont.)",
  " " }

\* no file was written by the model: its lines are any lines
AnyFile == << "*" >>

TxtIdle ==
  /\ t_file = AnyFile
  /\ t_stem = ""
  /\ t_lines = << >>
  /\ t_chapters = << >>
  /\ t_current = 0
  /\ t_last = NoVerse
  /\ t_pc = "idle"

\* lines 62-72
TxtInit ==
  /\ t_file = AnyFile
  /\ t_stem \in TxtStems
  /\ t_lines = << >>
  /\ t_chapters = << >>
  /\ t_current = 0
  /\ t_last = NoVerse
  /\ t_pc = "loop"

\* line 73: ln is the next line of the file
TxtReads(ln) ==
  /\ t_pc = "loop"
  /\ IF t_file = AnyFile
       THEN Len(t_lines) < MaxTxtLines /\ ln \in TxtLines
       ELSE Len(t_lines) < Len(t_file) /\ ln = t_file[Len(t_lines) + 1]

\* the lines the next line of the file is one of
TxtNextLines ==
  IF t_file = AnyFile THEN TxtLines
  ELSE { t_file[i] : i \in 1..Len(t_file) }

\* lines 74-76: a blank line
TxtBlank(ln) ==
  /\ TxtReads(ln)
  /\ UNCHANGED notTxt
  /\ Strip(ln) = ""
  /\ t_lines' = Append(t_lines, ln)
  /\ UNCHANGED << t_stem, t_chapters, t_current, t_last, t_pc, t_file >>

\* a Chapter marker that leaves the last-verse reference as it is
TxtChapterKeepsVerse(ln) ==
  /\ TxtReads(ln)
  /\ UNCHANGED notTxt
  /\ Strip(ln) # ""
  /\ ChapterMatch(Strip(ln))
  /\ t_chapters' = Append(t_chapters,
                          [number |-> ParseInt(ChapterGroup(Strip(ln))),
                           verses |-> << >>])
  /\ t_current' = Len(t_chapters) + 1
  /\ t_lines' = Append(t_lines, ln)
  /\ UNCHANGED << t_stem, t_last, t_pc, t_file >>

\* lines 77-83: a Chapter marker opens a chapter
TxtChapter(ln) ==
  /\ TxtReads(ln)
  /\ UNCHANGED notTxt
  /\ Strip(ln) # ""
  /\ ChapterMatch(Strip(ln))
  /\ t_chapters' = Append(t_chapters,
                          [number |-> ParseInt(ChapterGroup(Strip(ln))),
                           verses |-> << >>])
  /\ t_current' = Len(t_chapters) + 1
  /\ t_last' = NoVerse
  /\ t_lines' = Append(t_lines, ln)
  /\ UNCHANGED << t_stem, t_pc, t_file >>

\* lines 84-91: a verse line, when a chapter is open
TxtVerse(ln) ==
  /\ TxtReads(ln)
  /\ UNCHANGED notTxt
  /\ Strip(ln) # ""
  /\ ~ChapterMatch(Strip(ln))
  /\ VerseMatch(Strip(ln))
  /\ t_current # 0
  /\ LET g == VerseGroups(Strip(ln))
         verse == [number |-> ParseInt(g[1]), text |-> Strip(g[2])]
     IN  /\ t_chapters' = [t_chapters EXCEPT
                             ![t_current].verses = Append(@, verse)]
         /\ t_last' = << t_current, Len(t_chapters[t_current].verses) + 1 >>
  /\ t_lines' = Append(t_lines, ln)
  /\ UNCHANGED << t_stem, t_current, t_pc, t_file >>

\* lines 92-94: any other line continues the last verse, if there is one
TxtContinuation(ln) ==
  /\ TxtReads(ln)
  /\ UNCHANGED notTxt
  /\ Strip(ln) # ""
  /\ ~ChapterMatch(Strip(ln))
  /\ ~(VerseMatch(Strip(ln)) /\ t_current # 0)
  /\ IF t_last # NoVerse
       THEN t_chapters' = [t_chapters EXCEPT
              ![t_last[1]].verses[t_last[2]].text = @ \o " " \o Strip(ln)]
       ELSE UNCHANGED t_chapters
  /\ t_lines' = Append(t_lines, ln)
  /\ UNCHANGED << t_stem, t_current, t_last, t_pc, t_file >>

\* line 95: the end of the file
TxtReturn ==
  /\ t_pc = "loop"
  /\ t_file = AnyFile \/ Len(t_lines) = Len(t_file)
  /\ UNCHANGED notTxt
  /\ t_pc' = "returned"
  /\ UNCHANGED << t_stem, t_lines, t_chapters, t_current, t_last, t_file >>

TxtNext ==
  \/ \E ln \in TxtNextLines : TxtBlank(ln)
  \/ \E ln \in TxtNextLines : TxtChapter(ln)
  \/ \E ln \in TxtNextLines : TxtVerse(ln)
  \/ \E ln \in TxtNextLines : TxtContinuation(ln)
  \/ TxtReturn

(***************************************************************************)
(* is_heading (split_bible_kjv.py).                                        *)
(***************************************************************************)
ALIASES == <<
  << "Genesis", << "GENESIS" >> >>,
  << "Exodus", << "EXODUS" >> >>,
  << "Leviticus", << "LEVITICUS" >> >>,
  << "Numbers", << "NUMBERS" >> >>,
  << "Deuteronomy", << "DEUTERONOMY" >> >>,
  << "Joshua", << "JOSHUA" >> >>,
  << "Judges", << "JUDGES" >> >>,
  << "Ruth", << "RUTH" >> >>,
  << "1 Samuel", << "1 SAMUEL", "FIRST BOOK OF SAMUEL" >> >>,
  << "2 Samuel", << "2 SAMUEL", "SECOND BOOK OF SAMUEL" >> >>,
  << "1 Kings", << "1 KINGS", "FIRST BOOK OF KINGS" >> >>,
  << "2 Kings", << "2 KINGS", "SECOND BOOK OF KINGS" >> >>,
  << "1 Chronicles", << "1 CHRONICLES", "FIRST BOOK OF CHRONICLES" >> >>,
  << "2 Chronicles", << "2 CHRONICLES", "SECOND BOOK OF CHRONICLES" >> >>,
  << "Ezra", << "EZRA" >> >>,
  << "Nehemiah", << "NEHEMIAH" >> >>,
  << "Esther", << "ESTHER" >> >>,
  << "Job", << "JOB" >> >>,
  << "Psalms", << "PSALM", "PSALMS" >> >>,
  << "Proverbs", << "PROVERBS" >> >>,
  << "Ecclesiastes", << "ECCLESIASTES" >> >>,
  << "Song of Solomon", << "SONG OF SOLOMON", "CANTICLES" >> >>,
  << "Isaiah", << "ISAIAH" >> >>,
  << "Jeremiah", << "JEREMIAH" >> >>,
  << "Lamentations", << "LAMENTATIONS" >> >>,
  << "Ezekiel", << "EZEKIEL" >> >>,
  << "Daniel", << "DANIEL" >> >>,
  << "Hosea", << "HOSEA" >> >>,
  << "Joel", << "JOEL" >> >>,
  << "Amos", << "AMOS" >> >>,
  << "Obadiah", << "OBADIAH" >> >>,
  << "Jonah", << "JONAH" >> >>,
  << "Micah", << "MICAH" >> >>,
  << "Nahum", << "NAHUM" >> >>,
  << "Habakkuk", << "HABAKKUK" >> >>,
  << "Zephaniah", << "ZEPHANIAH" >> >>,
  << "Haggai", << "HAGGAI" >> >>,
  << "Zechariah", << "ZECHARIAH" >> >>,
  << "Malachi", << "MALACHI" >> >>,
  << "Matthew", << "MATTHEW" >> >>,
  << "Mark", << "MARK" >> >>,
  << "Luke", << "LUKE" >> >>,
  << "John", << "JOHN" >> >>,
  << "Acts", << "ACTS" >> >>,
  << "Romans", << "ROMANS" >> >>,
  << "1 Corinthians", << "1 CORINTHIANS", "FIRST EPISTLE OF PAUL THE APOSTLE TO THE CORINTHIANS" >> >>,
  << "2 Corinthians", << "2 CORINTHIANS", "SECOND EPISTLE OF PAUL THE APOSTLE TO THE CORINTHIANS" >> >>,
  << "Galatians", << "GALATIANS" >> >>,
  << "Ephesians", << "EPHESIANS" >> >>,
  << "Philippians", << "PHILIPPIANS" >> >>,
  << "Colossians", << "COLOSSIANS" >> >>,
  << "1 Thessalonians", << "1 THESSALONIANS", "FIRST EPISTLE TO THE THESSALONIANS" >> >>,
  << "2 Thessalonians", << "2 THESSALONIANS", "SECOND EPISTLE TO THE THESSALONIANS" >> >>,
  << "1 Timothy", << "1 TIMOTHY", "FIRST EPISTLE TO TIMOTHY" >> >>,
  << "2 Timothy", << "2 TIMOTHY", "SECOND EPISTLE TO TIMOTHY" >> >>,
  << "Titus", << "TITUS" >> >>,
  << "Philemon", << "PHILEMON" >> >>,
  << "Hebrews", << "HEBREWS" >> >>,
  << "James", << "JAMES" >> >>,
  << "1 Peter", << "1 PETER", "FIRST EPISTLE GENERAL OF PETER" >> >>,
  << "2 Peter", << "2 PETER", "SECOND EPISTLE GENERAL OF PETER" >> >>,
  << "1 John", << "1 JOHN", "FIRST EPISTLE GENERAL OF JOHN" >> >>,
  << "2 John", << "2 JOHN", "SECOND EPISTLE OF JOHN" >> >>,
  << "3 John", << "3 JOHN", "THIRD EPISTLE OF JOHN" >> >>,
  << "Jude", << "JUDE" >> >>,
  << "Revelation", << "REVELATION", "REVELATION OF ST. JOHN", "REVELATION OF ST. JOHN THE DIVINE" >> >> >>

\* VERSE_COLON_RE.match(s):  ^(\d+):(\d+)\s+(.*)$
VerseColonMatch(s) ==
  LET e1 == SkipDigits(s, 1)
      e2 == SkipDigits(s, e1 + 1)
  IN  /\ e1 > 1
      /\ e1 <= Len(s)
      /\ Ch(s, e1) = ":"
      /\ e2 > e1 + 1
      /\ e2 <= Len(s)
      /\ IsSpace(Ch(s, e2))

\* its groups 1, 2 and 3
VerseColonGroups(s) ==
  LET e1 == SkipDigits(s, 1)
      e2 == SkipDigits(s, e1 + 1)
  IN  << SubSeq(s, 1, e1 - 1), SubSeq(s, e1 + 1, e2 - 1),
         From(s, SkipSpace(s, e2)) >>

\* VERSE_SIMPLE_RE.match(s):  ^(\d+)\s+(.*)$
VerseSimpleMatch(s) == VerseMatch(s)
VerseSimpleGroups(s) == VerseGroups(s)

\* the characters of the class [\-:,.;'\"()]
Punctuation == "-:,.;'\"()"
IsPunct(c) == \E i \in 1..Len(Punctuation) : Ch(Punctuation, i) = c

\* re.sub(r"[\-:,.;'\"()]+", " ", s)
RECURSIVE SubPunct(_)
SubPunct(s) ==
  IF s = "" THEN ""
  ELSE IF IsPunct(Head(s))
    THEN " " \o SubPunct(From(s, CHOOSE k \in 2..(Len(s) + 1) :
                                   /\ \A j \in 1..(k - 1) : IsPunct(Ch(s, j))
                                   /\ (k <= Len(s) => ~IsPunct(Ch(s, k)))))
    ELSE Head(s) \o SubPunct(Tail(s))

\* re.sub(r"\s+", " ", s)
RECURSIVE SubSpace(_)
SubSpace(s) ==
  IF s = "" THEN ""
  ELSE IF IsSpace(Head(s)) THEN " " \o SubSpace(From(s, SkipSpace(s, 1)))
  ELSE Head(s) \o SubSpace(Tail(s))

\* lines 137-138
Cleaned(upper) == Strip(SubSpace(SubPunct(upper)))

\* lines 148-152: the first book, in the order of ALIASES, with an alias
\* that occurs in upper or in cleaned
AliasHit(i, upper, cleaned) ==
  \E j \in 1..Len(ALIASES[i][2]) :
     Contains(upper, ALIASES[i][2][j]) \/ Contains(cleaned, ALIASES[i][2][j])

AliasBook(upper, cleaned) ==
  IF \E i \in 1..Len(ALIASES) : AliasHit(i, upper, cleaned)
    THEN ALIASES[CHOOSE i \in 1..Len(ALIASES) :
                   /\ AliasHit(i, upper, cleaned)
                   /\ \A k \in 1..(i - 1) : ~AliasHit(k, upper, cleaned)][1]
    ELSE None

\* lines 141-147: the canon name a BOOK heading spells out, else None
HeadingName(raw) ==
  IF BookHeadingMatch(raw)
    THEN LET name_part == Strip(BookHeadingGroups(raw)[2])
         IN  IF \E i \in 1..Len(BOOKS) : Lower(BOOKS[i]) = Lower(name_part)
               THEN BOOKS[CHOOSE i \in 1..Len(BOOKS) :
                            Lower(BOOKS[i]) = Lower(name_part)]
               ELSE None
    ELSE None

\* is_heading(line): a canon name, or None
is_heading(line) ==
  LET raw == Strip(line)
  IN  IF raw = "" THEN None
      ELSE IF VerseColonMatch(raw) \/ VerseSimpleMatch(raw) THEN None
      ELSE IF HeadingName(raw) # None THEN HeadingName(raw)
      ELSE AliasBook(Upper(raw), Cleaned(Upper(raw)))

\* the lines a heading-convention master file is made of; an input of at
\* most MaxSplitLines of them is below the thresholds of
\* detect_numbered_format (line 243)
SplitLines == {
  "THE REVELATION OF ST. JOHN THE DIVINE",
  "THE FIRST EPISTLE GENERAL OF JOHN",
  "THE SECOND BOOK OF SAMUEL",
  "The Gospel According to St. John",
  "BOOK 01 Genesis",
  "PSALM 23",
  "1:1 The vision of Obadiah.",
  "1 In the beginning",
  "the heaven and the earth.",
  "" }

\* the content lines of a book
CleanLines == {
  "CHAPTER 2",
  "PSALM 23",
  "1 In the beginning",
  "2 And the earth",
  "1:3 And God said",
  "the heaven and the earth.",
  "12",
  "THE BOOK OF PSALMS",
  "" }

\* is_heading of every line the model reads, computed once
Headings == [ln \in SplitLines \cup CleanLines |-> is_heading(ln)]

(***************************************************************************)
(* split_books (split_bible_kjv.py), heading convention.                   *)
(***************************************************************************)
SplitIdle ==
  /\ h_lines = << >>
  /\ books_content = << >>
  /\ h_current = None
  /\ heading_buffer = << >>
  /\ h_pc = "idle"

\* lines 245-247
SplitInit ==
  /\ h_lines = << >>
  /\ books_content = << >>
  /\ h_current = None
  /\ heading_buffer = << >>
  /\ h_pc = "loop"

SplitCanRead == h_pc = "loop" /\ Len(h_lines) < MaxSplitLines

\* line 250: the line is a heading of another book than the current one
SplitSwitches(line) ==
  Headings[line] # None /\ (h_current = None \/ Headings[line] # h_current)

\* books_content[b] = []: the list of the book is opened anew
ResetContent(content, b) ==
  [x \in DOMAIN content \cup {b} |-> IF x = b THEN << >> ELSE content[x]]

\* books_content.setdefault(b, [])
SetDefault(content, b) ==
  IF b \in DOMAIN content THEN content
  ELSE [x \in DOMAIN content \cup {b} |->
          IF x = b THEN << >> ELSE content[x]]

\* lines 249-254: a heading of another book switches to it
SplitHeading(line) ==
  /\ SplitCanRead
  /\ UNCHANGED notSplit
  /\ SplitSwitches(line)
  /\ h_current' = Headings[line]
  /\ books_content' = SetDefault(books_content, Headings[line])
  /\ heading_buffer' = << line >>
  /\ h_lines' = Append(h_lines, line)
  /\ UNCHANGED h_pc

\* lines 255-256: a line before the first heading
SplitBeforeBooks(line) ==
  /\ SplitCanRead
  /\ UNCHANGED notSplit
  /\ ~SplitSwitches(line)
  /\ h_current = None
  /\ h_lines' = Append(h_lines, line)
  /\ UNCHANGED << books_content, h_current, heading_buffer, h_pc >>

\* lines 257-259: a further heading line right after a heading
SplitHeadingMore(line) ==
  /\ SplitCanRead
  /\ UNCHANGED notSplit
  /\ ~SplitSwitches(line)
  /\ h_current # None
  /\ heading_buffer # << >> /\ Headings[line] # None
  /\ heading_buffer' = Append(heading_buffer, line)
  /\ h_lines' = Append(h_lines, line)
  /\ UNCHANGED << books_content, h_current, h_pc >>

\* lines 260-261: a content line of the current book
SplitContent(line) ==
  /\ SplitCanRead
  /\ UNCHANGED notSplit
  /\ ~SplitSwitches(line)
  /\ h_current # None
  /\ ~(heading_buffer # << >> /\ Headings[line] # None)
  /\ heading_buffer' = << >>
  /\ books_content' = [books_content EXCEPT ![h_current] = Append(@, line)]
  /\ h_lines' = Append(h_lines, line)
  /\ UNCHANGED << h_current, h_pc >>

\* line 262
SplitReturn ==
  /\ h_pc = "loop"
  /\ UNCHANGED notSplit
  /\ h_pc' = "returned"
  /\ UNCHANGED << h_lines, books_content, h_current, heading_buffer >>

SplitNext ==
  \/ \E line \in SplitLines : SplitHeading(line)
  \/ \E line \in SplitLines : SplitBeforeBooks(line)
  \/ \E line \in SplitLines : SplitHeadingMore(line)
  \/ \E line \in SplitLines : SplitContent(line)
  \/ SplitReturn

(***************************************************************************)
(* clean_book_lines (split_bible_kjv.py), and the file main writes.        *)
(***************************************************************************)
\* CHAPTER_HEADING_RE.match(s):  ^(?:CHAPTER|PSALM)\s+(\d+)$  (re.IGNORECASE)
ChapterHeadingMatch(s) ==
  KeywordNumberMatch(s, "CHAPTER") \/ KeywordNumberMatch(s, "PSALM")

\* its group 1
ChapterHeadingGroup(s) ==
  IF KeywordNumberMatch(s, "CHAPTER") THEN KeywordNumberGroup(s, "CHAPTER")
  ELSE KeywordNumberGroup(s, "PSALM")

\* the book whose lines are cleaned
CleanBook == "Psalms"

\* the lines argument is not fixed: it holds any lines
AnyLines == << "*" >>

\* is_heading(ln), looked up where it was computed already
HeadingOf(ln) == IF ln \in DOMAIN Headings THEN Headings[ln] ELSE is_heading(ln)

CleanIdle ==
  /\ c_input = AnyLines
  /\ c_lines = << >>
  /\ normalized = << >>
  /\ c_chapter = NoNumber
  /\ c_last = NoNumber
  /\ c_pc = "idle"

\* lines 268-288
CleanInit ==
  /\ c_input = AnyLines
  /\ c_lines = << >>
  /\ normalized = << >>
  /\ c_chapter = NoNumber
  /\ c_last = NoNumber
  /\ c_pc = "loop"

\* lines 275, 296: ln is the next line of the argument
CleanReads(ln) ==
  /\ c_pc = "loop"
  /\ IF c_input = AnyLines
       THEN Len(c_lines) < MaxCleanLines /\ ln \in CleanLines
       ELSE Len(c_lines) < Len(c_input) /\ ln = c_input[Len(c_lines) + 1]

\* the lines the next line of the argument is one of
CleanNextLines ==
  IF c_input = AnyLines THEN CleanLines
  ELSE { c_input[i] : i \in 1..Len(c_input) }

\* line 278, 297: the line as the second loop sees it
CleanRaw(ln) == Strip(RStrip(ln))

\* a start_chapter that writes no marker
StartChapterUnmarked(norm, ch_num) == norm

\* lines 290-294: normalized after start_chapter(ch_num)
StartChapter(norm, ch_num) == Append(norm, "Chapter " \o ToStr(ch_num))

\* InferredChapter without the test that the previous verse was > 1
InferredChapterOnEveryOne(cur, last, v_num) ==
  IF cur = NoNumber THEN 1
  ELSE IF last # NoNumber /\ v_num = 1 THEN cur + 1
  ELSE NoNumber

\* lines 324-329: the chapter a bare verse line opens, NoNumber for none
InferredChapter(cur, last, v_num) ==
  IF cur = NoNumber THEN 1
  ELSE IF last # NoNumber /\ v_num = 1 /\ last # 0 /\ last > 1 THEN cur + 1
  ELSE NoNumber

\* lines 275-277: a book heading is dropped
\* (the first loop is merged into the second: it drops the headings, and the
\* blank lines it trims are lines the second loop skips)
CleanDropHeading(ln) ==
  /\ CleanReads(ln)
  /\ UNCHANGED notClean
  /\ HeadingOf(ln) # None
  /\ c_lines' = Append(c_lines, ln)
  /\ UNCHANGED << normalized, c_chapter, c_last, c_pc, c_input >>

\* lines 281-284, 297-299: a blank line
CleanBlank(ln) ==
  /\ CleanReads(ln)
  /\ UNCHANGED notClean
  /\ HeadingOf(ln) = None
  /\ CleanRaw(ln) = ""
  /\ c_lines' = Append(c_lines, ln)
  /\ UNCHANGED << normalized, c_chapter, c_last, c_pc, c_input >>

\* lines 300-304: an explicit chapter heading
CleanChapterHeading(ln) ==
  /\ CleanReads(ln)
  /\ UNCHANGED notClean
  /\ HeadingOf(ln) = None
  /\ CleanRaw(ln) # ""
  /\ ChapterHeadingMatch(CleanRaw(ln))
  /\ LET ch_num == ParseInt(ChapterHeadingGroup(CleanRaw(ln)))
     IN  /\ normalized' = StartChapter(normalized, ch_num)
         /\ c_chapter' = ch_num
  /\ c_last' = NoNumber
  /\ c_lines' = Append(c_lines, ln)
  /\ UNCHANGED << c_pc, c_input >>

\* lines 306-316: a chapter:verse line
CleanColonVerse(ln) ==
  /\ CleanReads(ln)
  /\ UNCHANGED notClean
  /\ HeadingOf(ln) = None
  /\ CleanRaw(ln) # ""
  /\ ~ChapterHeadingMatch(CleanRaw(ln))
  /\ VerseColonMatch(CleanRaw(ln))
  /\ LET g == VerseColonGroups(CleanRaw(ln))
         ch_num == ParseInt(g[1])
         v_num == ParseInt(g[2])
         text == Strip(g[3])
         norm == IF c_chapter # ch_num THEN StartChapter(normalized, ch_num)
                 ELSE normalized
     IN  /\ normalized' = Append(norm, ToStr(v_num) \o " " \o text)
         /\ c_chapter' = ch_num
         /\ c_last' = v_num
  /\ c_lines' = Append(c_lines, ln)
  /\ UNCHANGED << c_pc, c_input >>

\* lines 318-332: a bare verse line
CleanSimpleVerse(ln) ==
  /\ CleanReads(ln)
  /\ UNCHANGED notClean
  /\ HeadingOf(ln) = None
  /\ CleanRaw(ln) # ""
  /\ ~ChapterHeadingMatch(CleanRaw(ln))
  /\ ~VerseColonMatch(CleanRaw(ln))
  /\ VerseSimpleMatch(CleanRaw(ln))
  /\ LET g == VerseSimpleGroups(CleanRaw(ln))
         v_num == ParseInt(g[1])
         text == Strip(g[2])
         opens == InferredChapter(c_chapter, c_last, v_num)
         norm == IF opens # NoNumber THEN StartChapter(normalized, opens)
                 ELSE normalized
     IN  /\ normalized' = Append(norm, ToStr(v_num) \o " " \o text)
         /\ c_chapter' = IF opens # NoNumber THEN opens ELSE c_chapter
         /\ c_last' = v_num
  /\ c_lines' = Append(c_lines, ln)
  /\ UNCHANGED << c_pc, c_input >>

\* lines 334-341: any other line
CleanOther(ln) ==
  /\ CleanReads(ln)
  /\ UNCHANGED notClean
  /\ HeadingOf(ln) = None
  /\ CleanRaw(ln) # ""
  /\ ~ChapterHeadingMatch(CleanRaw(ln))
  /\ ~VerseColonMatch(CleanRaw(ln))
  /\ ~VerseSimpleMatch(CleanRaw(ln))
  /\ IF normalized # << >>
        /\ ~StartsWith(normalized[Len(normalized)], "Chapter ")
       THEN /\ normalized' = [normalized EXCEPT ![Len(normalized)] =
                                 @ \o " " \o CleanRaw(ln)]
            /\ UNCHANGED << c_chapter, c_last >>
       ELSE IF c_chapter = NoNumber
         THEN /\ normalized' = Append(StartChapter(normalized, 1), CleanRaw(ln))
              /\ c_chapter' = 1
              /\ c_last' = NoNumber
         ELSE /\ normalized' = Append(normalized, CleanRaw(ln))
              /\ UNCHANGED << c_chapter, c_last >>
  /\ c_lines' = Append(c_lines, ln)
  /\ UNCHANGED << c_pc, c_input >>

\* line 343
CleanReturn ==
  /\ c_pc = "loop"
  /\ UNCHANGED notClean
  /\ c_input = AnyLines \/ Len(c_lines) = Len(c_input)
  /\ c_pc' = "returned"
  /\ UNCHANGED << c_lines, normalized, c_chapter, c_last, c_input >>

\* "\n".join(seq)
RECURSIVE Join(_)
Join(seq) ==
  IF seq = << >> THEN ""
  ELSE IF Len(seq) = 1 THEN seq[1]
  ELSE seq[1] \o "\n" \o Join(Tail(seq))

\* text.splitlines(), cur being the line that is being read
RECURSIVE SplitLinesFrom(_, _)
SplitLinesFrom(text, cur) ==
  IF \E i \in 1..Len(text) : Ch(text, i) = "\n"
    THEN LET i == CHOOSE i \in 1..Len(text) :
                    /\ Ch(text, i) = "\n"
                    /\ \A j \in 1..(i - 1) : Ch(text, j) # "\n"
         IN  << cur \o SubSeq(text, 1, i - 1) >>
               \o SplitLinesFrom(From(text, i + 1), "")
  ELSE IF cur \o text = "" THEN << >>
  ELSE << cur \o text >>

\* split_bible_kjv.py lines 373-375 and export_bible_json.py line 69: the
\* lines parse_book_txt reads from the file main wrote for cleaned
BookFileLines(cleaned) == SplitLinesFrom(Strip(Join(cleaned)) \o "\n", "")

\* split_bible_kjv.py lines 372-375, export_bible_json.py lines 226-230, 62-72:
\* the book's file is written, and the exporter starts to parse it
CleanWriteFile ==
  /\ c_pc = "returned"
  /\ c_pc' = "written"
  /\ t_pc = "idle"
  /\ t_pc' = "loop"
  /\ t_stem' = RemoveSpaces(CleanBook)
  /\ t_file' = BookFileLines(normalized)
  /\ UNCHANGED << t_lines, t_chapters, t_current, t_last >>
  /\ UNCHANGED << c_lines, normalized, c_chapter, c_last, c_input >>
  /\ UNCHANGED << mvars, svars, hvars, dvars >>

\* clean_book_lines is called again, on the lines it returned
CleanAgain ==
  /\ c_pc = "returned"
  /\ c_input = AnyLines
  /\ UNCHANGED notClean
  /\ c_input' = normalized
  /\ c_lines' = << >>
  /\ normalized' = << >>
  /\ c_chapter' = NoNumber
  /\ c_last' = NoNumber
  /\ c_pc' = "loop"

\* the steps of clean_book_lines itself
CleanLoop ==
  \/ \E ln \in CleanNextLines : CleanDropHeading(ln)
  \/ \E ln \in CleanNextLines : CleanBlank(ln)
  \/ \E ln \in CleanNextLines : CleanChapterHeading(ln)
  \/ \E ln \in CleanNextLines : CleanColonVerse(ln)
  \/ \E ln \in CleanNextLines : CleanSimpleVerse(ln)
  \/ \E ln \in CleanNextLines : CleanOther(ln)
  \/ CleanReturn

CleanNext ==
  \/ \E ln \in CleanNextLines : CleanDropHeading(ln)
  \/ \E ln \in CleanNextLines : CleanBlank(ln)
  \/ \E ln \in CleanNextLines : CleanChapterHeading(ln)
  \/ \E ln \in CleanNextLines : CleanColonVerse(ln)
  \/ \E ln \in CleanNextLines : CleanSimpleVerse(ln)
  \/ \E ln \in CleanNextLines : CleanOther(ln)
  \/ CleanReturn
  \/ CleanWriteFile

(***************************************************************************)
(* detect_numbered_format, of export_bible_json.py and split_bible_kjv.py. *)
(***************************************************************************)
\* the two thresholds (export_bible_json.py line 101, split_bible_kjv.py
\* line 163)
VERSE_THRESHOLD == 200
BOOK_THRESHOLD == 30

\* export_bible_json.py line 101
ExporterDetects(verses, books_) ==
  verses > VERSE_THRESHOLD /\ books_ > BOOK_THRESHOLD

\* the splitter's test with >= 200, as its docstring words it
SplitterDetectsFromThreshold(verse_matches_, book_matches_) ==
  verse_matches_ >= VERSE_THRESHOLD /\ book_matches_ > BOOK_THRESHOLD

\* split_bible_kjv.py line 163
SplitterDetects(verse_matches_, book_matches_) ==
  verse_matches_ > VERSE_THRESHOLD /\ book_matches_ > BOOK_THRESHOLD

\* the lines of the file whose format is detected
DetectLines == {
  "01:001:001 In the beginning",
  "66:022:021 The grace of our Lord",
  "BOOK 01 Genesis",
  "book 2 exodus",
  " 01:001:002 And the earth",
  "1:1 The vision of Obadiah.",
  "the heaven and the earth." }

DetectIdle ==
  /\ e_verses = 0
  /\ e_books = 0
  /\ verse_matches = 0
  /\ book_matches = 0
  /\ s_detected = FALSE
  /\ d_others = 0
  /\ d_result = << >>
  /\ d_pc = "idle"

\* export_bible_json.py lines 98-100, split_bible_kjv.py lines 156-157
DetectInit ==
  /\ e_verses = 0
  /\ e_books = 0
  /\ verse_matches = 0
  /\ book_matches = 0
  /\ s_detected = FALSE
  /\ d_others = 0
  /\ d_result = << >>
  /\ d_pc = "scan"

\* 1 if the condition holds, as sum(1 for ... if ...) and += 1 count it
Count(cond) == IF cond THEN 1 ELSE 0

\* export_bible_json.py lines 99-100 and split_bible_kjv.py lines 158-164:
\* both functions meet the line ln; the splitter's scan has ended if it
\* returned True at an earlier line
DetectLine(ln) ==
  /\ d_pc = "scan"
  /\ UNCHANGED notDetect
  /\ NumVerseMatch(ln) => e_verses < MaxVerseLines
  /\ BookHeadingMatch(ln) => e_books < MaxHeadingLines
  /\ (~NumVerseMatch(ln) /\ ~BookHeadingMatch(ln)) => d_others < MaxOtherLines
  /\ e_verses' = e_verses + Count(NumVerseMatch(ln))
  /\ e_books' = e_books + Count(BookHeadingMatch(ln))
  /\ d_others' = d_others + Count(~NumVerseMatch(ln) /\ ~BookHeadingMatch(ln))
  /\ IF s_detected
       THEN UNCHANGED << verse_matches, book_matches, s_detected >>
       ELSE /\ verse_matches' = verse_matches + Count(NumVerseMatch(ln))
            /\ book_matches' = book_matches + Count(BookHeadingMatch(ln))
            /\ s_detected' = SplitterDetects(verse_matches', book_matches')
  /\ UNCHANGED << d_result, d_pc >>

\* export_bible_json.py line 101, split_bible_kjv.py lines 164-165
DetectReturn ==
  /\ d_pc = "scan"
  /\ UNCHANGED notDetect
  /\ d_result' = << ExporterDetects(e_verses, e_books), s_detected >>
  /\ d_pc' = "returned"
  /\ UNCHANGED << e_verses, e_books, verse_matches, book_matches, s_detected,
                  d_others >>

DetectNext ==
  \/ \E ln \in DetectLines : DetectLine(ln)
  \/ DetectReturn

(***************************************************************************)
(* parse_numbered_format (split_bible_kjv.py), and parse_book_txt on the   *)
(* lines it returns for a book.                                            *)
(***************************************************************************)
\* lines 177-210: what the loop finds in each line of MasterLines: nothing
\* (blank), a BOOK heading with the book it resolves to (as in
\* parse_master_numbered, lines 186-194), a verse with its fields, or another
\* line with its stripped text
NumberedLines ==
  [ln \in MasterLines |->
     LET ln_strip == Strip(ln) IN
     IF ln_strip = "" THEN [kind |-> "blank"]
     ELSE IF BookHeadingMatch(ln_strip)
       THEN LET g == BookHeadingGroups(ln_strip)
            IN  [kind |-> "heading",
                 matched_book |-> ResolveHeading(ParseInt(g[1]), Strip(g[2]))]
     ELSE IF NumVerseMatch(ln_strip)
       THEN LET g == NumVerseGroups(ln_strip)
            IN  [kind |-> "verse",
                 book_num |-> ParseInt(g[1]),
                 chapter |-> FieldInt(g[2]),
                 verse |-> FieldInt(g[3]),
                 text |-> Strip(g[4])]
     ELSE [kind |-> "other", ln_strip |-> ln_strip]]

\* lines 177-229: the body of the loop, for the line ln.  st holds
\* books_content, current_book, current_chapter, last_verse_line_index, and
\* raised, which is TRUE once BOOKS[book_num - 1] raised IndexError (line
\* 213)
NumberedStep(st, ln) ==
  LET m == NumberedLines[ln] IN
  IF st.raised \/ m.kind = "blank" THEN st
  ELSE IF m.kind = "heading"
    THEN [st EXCEPT !.current_book = m.matched_book,
                    !.current_chapter = NoNumber,
                    !.last_verse_line_index = NoVerse]
  ELSE IF m.kind = "verse"
    THEN LET sw == \/ st.current_book = None
                   \/ /\ 1 <= m.book_num
                      /\ m.book_num <= Len(BOOKS)
                      /\ st.current_book # BOOKS[m.book_num]
         IN  IF sw /\ ~InRange(BOOKS, m.book_num - 1)
               THEN [st EXCEPT !.raised = TRUE]
               ELSE
                 LET cb == IF sw THEN PyIndex(BOOKS, m.book_num - 1)
                           ELSE st.current_book
                     cc == IF sw THEN NoNumber ELSE st.current_chapter
                     marked == IF cc # m.chapter
                                 THEN Append(st.books_content[cb],
                                             "Chapter " \o ToStr(m.chapter))
                                 ELSE st.books_content[cb]
                     content == Append(marked,
                                       ToStr(m.verse) \o " " \o m.text)
                 IN  [st EXCEPT !.current_book = cb,
                                !.current_chapter = m.chapter,
                                !.books_content[cb] = content,
                                !.last_verse_line_index = << cb, Len(content) >>]
  ELSE IF st.last_verse_line_index # NoVerse
    THEN [st EXCEPT
           !.books_content[st.last_verse_line_index[1]]
                          [st.last_verse_line_index[2]] = @ \o " " \o m.ln_strip]
  ELSE st

\* lines 167-239: the content of every book, each line stripped and the
\* empty ones dropped, and whether the call raised IndexError instead
parse_numbered_format(ls) ==
  LET RECURSIVE Loop(_, _)
      Loop(st, i) ==
        IF i > Len(ls) THEN st ELSE Loop(NumberedStep(st, ls[i]), i + 1)
      end == Loop([books_content |-> [b \in BookNames |-> << >>],
                   current_book |-> None,
                   current_chapter |-> NoNumber,
                   last_verse_line_index |-> NoVerse,
                   raised |-> FALSE], 1)
      Stripped(lst) == [i \in 1..Len(lst) |-> Strip(lst[i])]
  IN  [raised |-> end.raised,
       books_content |->
         [b \in BookNames |->
            SelectSeq(Stripped(end.books_content[b]), LAMBDA t : t # "")]]

\* the books whose lines are parsed again
ReparseBooks == { "Genesis", "Exodus" }

\* export_bible_json.py lines 62-72: parse_book_txt starts on the lines
\* parse_numbered_format returned for a book, the input being the one
\* parse_master_numbered returned from
NumberedReparse ==
  /\ m_pc = "returned"
  /\ t_pc = "idle"
  /\ \E r \in { parse_numbered_format(lines) } :
       /\ ~r.raised
       /\ \E b \in ReparseBooks :
            /\ t_stem' = RemoveSpaces(b)
            /\ t_file' = r.books_content[b]
  /\ t_pc' = "loop"
  /\ UNCHANGED << t_lines, t_chapters, t_current, t_last >>
  /\ UNCHANGED << mvars, svars, cvars, hvars, dvars >>

(***************************************************************************)
(* The specifications.                                                     *)
(***************************************************************************)
MasterIdle ==
  /\ lines = << >>
  /\ books = [b \in BookNames |->
                [book |-> b, order |-> BOOK_INDEX(b), chapters |-> << >>]]
  /\ current_book = None
  /\ current_chapter_num = NoNumber
  /\ last_verse = NoVerse
  /\ m_pc = "idle"

\* parse_master_numbered on every input of at most MaxLines lines
Init == MasterInit /\ SinkIdle /\ TxtIdle /\ CleanIdle /\ SplitIdle /\ DetectIdle
Next == MasterNext
Spec == Init /\ [][Next]_vars

\* main, from the command line to 'Done.'
InitSink == MasterIdle /\ SinkInit /\ TxtIdle /\ CleanIdle /\ SplitIdle /\ DetectIdle
SpecSink == InitSink /\ [][SinkNext]_vars

\* parse_book_txt on every file of at most MaxTxtLines lines
InitTxt == MasterIdle /\ SinkIdle /\ TxtInit /\ CleanIdle /\ SplitIdle /\ DetectIdle
SpecTxt == InitTxt /\ [][TxtNext]_vars

\* the two parsers whose Book objects main hands to the Sink
InitExport == InitTxt \/ Init
NextExport == MasterNext \/ TxtNext
SpecExport == InitExport /\ [][NextExport]_vars

\* split_books on every heading-convention input of at most MaxSplitLines
InitSplit == MasterIdle /\ SinkIdle /\ TxtIdle /\ CleanIdle /\ SplitInit /\ DetectIdle
SpecSplit == InitSplit /\ [][SplitNext]_vars

\* clean_book_lines on every content of at most MaxCleanLines lines, and
\* parse_book_txt on the file written from its result
InitClean == MasterIdle /\ SinkIdle /\ TxtIdle /\ CleanInit /\ SplitIdle /\ DetectIdle
NextClean == CleanNext \/ TxtNext
SpecClean == InitClean /\ [][NextClean]_vars

\* clean_book_lines on every content of at most MaxCleanLines lines, and
\* again on the lines it returned
NextCleanTwice == CleanLoop \/ CleanAgain
SpecCleanTwice == InitClean /\ [][NextCleanTwice]_vars

\* the two detect_numbered_format, run side by side on every input of at
\* most MaxVerseLines verse lines, MaxHeadingLines BOOK headings and
\* MaxOtherLines other lines
InitDetect ==
  MasterIdle /\ SinkIdle /\ TxtIdle /\ CleanIdle /\ SplitIdle /\ DetectInit
SpecDetect == InitDetect /\ [][DetectNext]_vars

\* an export run: main with its Sink loop, and the numbered parser whose
\* books main hands to the Sink in whole-master mode
InitRun == InitSink \/ Init
NextRun == SinkNext \/ MasterNext
SpecRun == InitRun /\ [][NextRun]_vars

\* the parsers that build chapter objects: the numbered parser, and the
\* normalizer followed by parse_book_txt
InitChapters == Init \/ InitClean
NextChapters == MasterNext \/ CleanNext \/ TxtNext
SpecChapters == InitChapters /\ [][NextChapters]_vars

\* the two numbered-format pipelines on every input of at most MaxLines
\* lines: parse_master_numbered, and parse_numbered_format followed by
\* parse_book_txt
NextAgree ==
  \/ MasterNext
  \/ NumberedReparse
  \/ TxtNext
SpecAgree == InitExport /\ [][NextAgree]_vars

(***************************************************************************)
(* Properties of parse_master_numbered.                                    *)
(***************************************************************************)
\* what the last step read, when it read a line
ReadsLine == Len(lines') = Len(lines) + 1
LineRead == lines'[Len(lines')]

\* a line the numbered parser takes for a verse line, and its book number
IsVerseLine(ln) == MasterIsVerse(ln)
BookNumOf(ln) == ParseInt(SubSeq(RStrip(ln), 1, 2))
ChapterNumOf(ln) == ParseInt(SubSeq(RStrip(ln), 4, 6))
VerseNumOf(ln) == ParseInt(SubSeq(RStrip(ln), 8, 10))
TextOf(ln) == Strip(From(RStrip(ln), 11))
InCanon(ln) == IsVerseLine(ln) /\ BookNumOf(ln) \in 1..Len(BOOKS)
OutOfCanon(ln) == IsVerseLine(ln) /\ BookNumOf(ln) \notin 1..Len(BOOKS)
IsBookHeading(ln) == Strip(ln) # "" /\ BookHeadingMatch(Strip(ln))
IsContinuation(ln) ==
  Strip(ln) # "" /\ ~IsBookHeading(ln) /\ ~IsVerseLine(ln)

\* the verses of a book, chapter after chapter
RECURSIVE AllVerses(_)
AllVerses(chapters) ==
  IF chapters = << >> THEN << >>
  ELSE Head(chapters).verses \o AllVerses(Tail(chapters))

RECURSIVE SumVerses(_)
SumVerses(i) ==
  IF i > Len(BOOKS) THEN 0
  ELSE Len(AllVerses(books[BOOKS[i]].chapters)) + SumVerses(i + 1)

\* C1: a verse line whose book number is outside 1..66 is silently dropped:
\* reading it adds no verse, changes no verse, raises no error and leaves
\* the parse state as it was.
C1_OutOfCanonDropped ==
  [][ (ReadsLine /\ OutOfCanon(LineRead)) =>
        UNCHANGED << books, current_book, current_chapter_num, last_verse,
                     m_pc >> ]_vars

\* C7: a verse line with BB in 1..66 is placed in the book at canon position
\* BB whatever heading came before; when that book is not the current one the
\* parser switches to it and opens a new chapter object for the verse.  A
\* BOOK heading resolves by case-insensitive name, and by its number only
\* when no name matches.
C7_VersePlaced ==
  LET b == BOOKS[BookNumOf(LineRead)]
      chs == books'[b].chapters
      v == [number |-> VerseNumOf(LineRead), text |-> TextOf(LineRead)]
  IN  /\ current_book' = b
      /\ chs # << >>
      /\ chs[Len(chs)].number = ChapterNumOf(LineRead)
      /\ chs[Len(chs)].verses # << >>
      /\ chs[Len(chs)].verses[Len(chs[Len(chs)].verses)] = v
      /\ Len(AllVerses(chs)) = Len(AllVerses(books[b].chapters)) + 1
      /\ \A o \in BookNames \ {b} : books'[o] = books[o]
      /\ last_verse' = << b, Len(chs), Len(chs[Len(chs)].verses) >>
      /\ (current_book # b =>
            /\ Len(chs) = Len(books[b].chapters) + 1
            /\ chs[Len(chs)].verses = << v >>)

\* the names of the canon in lower case
LowerNames == [i \in 1..Len(BOOKS) |-> Lower(BOOKS[i])]

C7_HeadingResolved ==
  \A g \in { BookHeadingGroups(Strip(LineRead)) } :
  \A nn \in { ParseInt(g[1]) } :
  \A lname \in { Lower(Strip(g[2])) } :
  \A named \in { { i \in 1..Len(BOOKS) : LowerNames[i] = lname } } :
      /\ named # {} => current_book' \in { BOOKS[i] : i \in named }
      /\ (named = {} /\ nn \in 1..Len(BOOKS)) => current_book' = BOOKS[nn]
      /\ (named = {} /\ nn \notin 1..Len(BOOKS)) => current_book' = None
      /\ current_chapter_num' = NoNumber
      /\ last_verse' = NoVerse
      /\ books' = books

C7_PlacedByBookNumber ==
  [][ ReadsLine =>
        /\ InCanon(LineRead) => C7_VersePlaced
        /\ IsBookHeading(LineRead) => C7_HeadingResolved ]_vars

\* C7 witness: a heading that names one book, directly followed by a verse
\* line of another book, which landed in the book of its number.
C7_Witness ==
  /\ Len(lines) = 2
  /\ lines = << "BOOK 02 genesis", "02:001:001 Now these are" >>
  /\ current_book = "Exodus"
  /\ books["Exodus"].chapters =
       << [number |-> 1,
           verses |-> << [number |-> 1, text |-> "Now these are"] >>] >>
  /\ books["Genesis"].chapters = << >>

\* the verse numbers of the in-canon verse lines of book i, in input order
RECURSIVE NumbersFor(_, _)
NumbersFor(ls, i) ==
  IF ls = << >> THEN << >>
  ELSE (IF InCanon(Head(ls)) /\ BookNumOf(Head(ls)) = i
          THEN << VerseNumOf(Head(ls)) >> ELSE << >>)
       \o NumbersFor(Tail(ls), i)

RECURSIVE NumbersOf(_)
NumbersOf(verses) ==
  IF verses = << >> THEN << >>
  ELSE << Head(verses).number >> \o NumbersOf(Tail(verses))

\* C8: the parser neither loses, merges, deduplicates nor reorders verses:
\* the result holds exactly one verse per verse line with BB in 1..66, in
\* input order within each book.
C8_OneVersePerLine ==
  m_pc = "returned" =>
    /\ SumVerses(1) = Cardinality({ i \in 1..Len(lines) : InCanon(lines[i]) })
    /\ \A i \in 1..Len(BOOKS) :
         NumbersOf(AllVerses(books[BOOKS[i]].chapters)) = NumbersFor(lines, i)

\* C9: the result holds exactly the 66 canon books, each with its canon
\* position as order, and a book without a verse line has no chapters.
C9_AllBooksReturned ==
  m_pc = "returned" =>
    /\ DOMAIN books = BookNames
    /\ \A i \in 1..Len(BOOKS) :
         /\ books[BOOKS[i]].book = BOOKS[i]
         /\ books[BOOKS[i]].order = i
         /\ (\A k \in 1..Len(lines) :
               ~(InCanon(lines[k]) /\ BookNumOf(lines[k]) = i))
            => books[BOOKS[i]].chapters = << >>

\* the text of the last verse of the last chapter of a book extended by ln
ExtendsLastVerseOf(b, ln) ==
  LET chs == books[b].chapters
      k == Len(chs)
      n == Len(chs[k].verses)
  IN  books' = [books EXCEPT ![b].chapters[k].verses[n].text =
                                @ \o " " \o Strip(ln)]

\* C10 as claimed: a continuation line is joined onto the last-appended verse
\* whenever the current book already has a verse, and discarded only when it
\* has none.
C10_JoinedWheneverBookHasVerse ==
  [][ (ReadsLine /\ IsContinuation(LineRead)) =>
        IF current_book # None /\ books[current_book].chapters # << >>
          THEN ExtendsLastVerseOf(current_book, LineRead)
          ELSE books' = books ]_vars

\* the last line of ls that is a BOOK heading or a verse line (0 if none)
RECURSIVE LastStructural(_)
LastStructural(ls) ==
  IF ls = << >> THEN 0
  ELSE IF IsBookHeading(ls[Len(ls)]) \/ IsVerseLine(ls[Len(ls)]) THEN Len(ls)
  ELSE LastStructural(SubSeq(ls, 1, Len(ls) - 1))

\* C10 as amended: a continuation line is joined onto the verse of the most
\* recent verse line when no BOOK heading was read after that verse line; it
\* is discarded when the most recent heading-or-verse line is a BOOK heading
\* (also one that names the current book again) or when there is none.
C10_JoinedSinceLastHeading ==
  [][ (ReadsLine /\ IsContinuation(LineRead)) =>
        LET k == LastStructural(lines)
        IN  IF k > 0 /\ IsVerseLine(lines[k])
              THEN /\ current_book # None
                   /\ ExtendsLastVerseOf(current_book, LineRead)
              ELSE books' = books ]_vars

\* C10 witness: a continuation line read right after a BOOK heading that
\* announces the current book again left the book's verse as it was.
C10_Witness ==
  /\ lines = << "01:001:001 In the beginning", "BOOK 01 Genesis",
                "the heaven and the earth." >>
  /\ current_book = "Genesis"
  /\ books["Genesis"].chapters[1].verses[1].text = "In the beginning"


(***************************************************************************)
(* Properties of the Sink loop and of the Book objects handed to it.       *)
(***************************************************************************)
Did(op, b) == \E k \in 1..Len(events) : events[k].op = op /\ events[k].book = b

\* C2: a failure while handling one book (a status >= 300, or the upload or
\* the write raising) is confined to that book: the loop never ends in an
\* exception, and at 'Done.' every book of the parsed set was written and
\* uploaded as the command line asks.
C2_FailureConfined ==
  /\ (s_pc = "raised" => s_i = 0)
  /\ (s_pc = "done" =>
        \A b \in s_keys : /\ args.output_dir => Did("write", b)
                          /\ args.upload => Did("upload", b))

\* C3: every chapter of every Book object handed to the Sink holds at least
\* one verse, in whole-master mode and in per-file mode.
C3_NoEmptyChapter ==
  /\ (m_pc = "returned" =>
        \A b \in BookNames : \A k \in 1..Len(books[b].chapters) :
           books[b].chapters[k].verses # << >>)
  /\ (t_pc = "returned" =>
        \A k \in 1..Len(TxtResult.chapters) :
           TxtResult.chapters[k].verses # << >>)

(***************************************************************************)
(* Properties of clean_book_lines and of is_heading.                       *)
(***************************************************************************)
\* the step is clean_book_lines reading ln
CleanReadsLine(ln) == c_pc = "loop" /\ c_lines' = Append(c_lines, ln)

\* C4: in clean_book_lines a content line of the form CHAPTER n or PSALM n
\* (any letter case) opens chapter n: a Chapter n marker is emitted at that
\* position and the verse lines that follow belong to chapter n.
C4_ChapterHeadingOpens ==
  [][\A ln \in CleanLines :
       (CleanReadsLine(ln) /\ ChapterHeadingMatch(CleanRaw(ln))) =>
          LET n == ParseInt(ChapterHeadingGroup(CleanRaw(ln)))
          IN  /\ normalized' = Append(normalized, "Chapter " \o ToStr(n))
              /\ c_chapter' = n
              /\ c_last' = NoNumber]_vars

\* the step is split_books reading line
SplitReadsLine(line) == h_pc = "loop" /\ h_lines' = Append(h_lines, line)

\* a line that is no verse line, as is_heading tests it (lines 129-130)
NonVerseLine(line) ==
  /\ Strip(line) # ""
  /\ ~VerseColonMatch(Strip(line))
  /\ ~VerseSimpleMatch(Strip(line))

\* is_heading answers book for every non-verse line that contains alias, and
\* split_books makes that book the current one
ResolvesTo(line, alias, book) ==
  (NonVerseLine(line) /\ Contains(Upper(Strip(line)), alias)) =>
     (is_heading(line) = book /\ h_current' = book)

\* C5: is_heading resolves a heading line to the book whose specific alias
\* it contains and is never shadowed by a shorter alias of an earlier book:
\* REVELATION OF ST. JOHN resolves to Revelation, FIRST EPISTLE GENERAL OF
\* JOHN to 1 John, SECOND BOOK OF SAMUEL to 2 Samuel.
C5_SpecificAliasWins ==
  [][\A line \in SplitLines :
       SplitReadsLine(line) =>
          /\ ResolvesTo(line, "REVELATION OF ST. JOHN", "Revelation")
          /\ ResolvesTo(line, "FIRST EPISTLE GENERAL OF JOHN", "1 John")
          /\ ResolvesTo(line, "SECOND BOOK OF SAMUEL", "2 Samuel")]_vars

(***************************************************************************)
(* Properties of the chapter objects.                                      *)
(***************************************************************************)
\* the verse numbers of each chapter that holds a verse, chapter by chapter
RECURSIVE ChapterNumbers(_)
ChapterNumbers(chapters) ==
  IF chapters = << >> THEN << >>
  ELSE (IF Head(chapters).verses = << >> THEN << >>
        ELSE << NumbersOf(Head(chapters).verses) >>)
       \o ChapterNumbers(Tail(chapters))

\* a sequence of numbers in which no smaller number follows a larger one
NonDecreasing(nums) ==
  \A i \in 1..(Len(nums) - 1) : nums[i] <= nums[i + 1]

AllNonDecreasing(chapters) ==
  \A k \in 1..Len(chapters) : NonDecreasing(NumbersOf(chapters[k].verses))

\* C6 as claimed: in every chapter object the parsers produce, the verse
\* numbers are non-decreasing in the order the verses appear, for every
\* input line sequence.
C6_NonDecreasing ==
  /\ (m_pc = "returned" =>
        \A b \in BookNames : AllNonDecreasing(books[b].chapters))
  /\ (t_pc = "returned" /\ t_file # AnyFile =>
        AllNonDecreasing(TxtResult.chapters))

\* new is old with the number v placed after every number of old: at the
\* end of the last chapter, or alone in a chapter that comes last
PlacedLast(old, new, v) ==
  \/ new = Append(old, << v >>)
  \/ /\ old # << >>
     /\ new = [old EXCEPT ![Len(old)] = Append(@, v)]

\* the chapters of a step of the numbered parser, per book
MasterKeepsEncounterOrder ==
  \A b \in BookNames :
     \/ books'[b] = books[b]
     \/ \A old \in { ChapterNumbers(books[b].chapters) } :
        \A new \in { ChapterNumbers(books'[b].chapters) } :
           \/ new = old
           \/ /\ ReadsLine
              /\ IsVerseLine(LineRead)
              /\ PlacedLast(old, new, VerseNumOf(LineRead))

\* the chapters of a step of parse_book_txt
TxtKeepsEncounterOrder ==
  \/ t_chapters' = t_chapters
  \/ \A old \in { ChapterNumbers(t_chapters) } :
     \A new \in { ChapterNumbers(t_chapters') } :
        \/ new = old
        \/ /\ Len(t_lines') = Len(t_lines) + 1
           /\ \A ln \in { Strip(t_lines'[Len(t_lines')]) } :
                /\ VerseMatch(ln)
                /\ PlacedLast(old, new, ParseInt(VerseGroups(ln)[1]))

\* the lines of a step of clean_book_lines: the lines emitted before stay
\* as they are and where they are, but for a text joined onto the last one,
\* and a verse line is emitted last, with the number it has in the input
CleanKeepsEncounterOrder ==
  \/ normalized' = normalized
  \/ /\ Len(normalized') >= Len(normalized)
     /\ \A i \in 1..(Len(normalized) - 1) : normalized'[i] = normalized[i]
     /\ normalized # << >> =>
           StartsWith(normalized'[Len(normalized)],
                      normalized[Len(normalized)])
     /\ \A ln \in { CleanRaw(c_lines'[Len(c_lines')]) } :
          /\ VerseColonMatch(ln) =>
                StartsWith(normalized'[Len(normalized')],
                           ToStr(ParseInt(VerseColonGroups(ln)[2])) \o " ")
          /\ (~VerseColonMatch(ln) /\ VerseSimpleMatch(ln)) =>
                StartsWith(normalized'[Len(normalized')],
                           ToStr(ParseInt(VerseSimpleGroups(ln)[1])) \o " ")

\* C6, amended: the verses of a chapter object are in the order in which
\* their verse lines were encountered. Every step of the parsers leaves the
\* verse numbers of every chapter as they are, or places the number of the
\* verse line it reads after all the numbers already there; nothing is
\* sorted, moved or removed, so the numbers of a chapter are non-decreasing
\* only where the input has them so.
C6_AppendedInEncounterOrder ==
  [][/\ MasterKeepsEncounterOrder
     /\ TxtKeepsEncounterOrder
     /\ CleanKeepsEncounterOrder]_vars

\* C6: a chapter of the file the normalizer wrote holds verse 2 after
\* verse 3, as its input had them
C6_Witness ==
  /\ t_pc = "returned"
  /\ c_pc = "written"
  /\ c_lines = << "1:3 And God said", "2 And the earth" >>
  /\ ChapterNumbers(TxtResult.chapters) = << << 3, 2 >> >>

(***************************************************************************)
(* Properties of the lines clean_book_lines emits.                         *)
(***************************************************************************)
\* a content line that is no heading, no blank line, no chapter marker and
\* no verse line
IsLooseLine(ln) ==
  /\ Headings[ln] = None
  /\ CleanRaw(ln) # ""
  /\ ~ChapterHeadingMatch(CleanRaw(ln))
  /\ ~VerseColonMatch(CleanRaw(ln))
  /\ ~VerseSimpleMatch(CleanRaw(ln))

\* an emitted line that is a verse entry, "V text"
IsVerseEntry(entry) == VerseSimpleMatch(entry)

\* the index of the verse entry emitted last, 0 when there is none
LastVerseEntry(norm) ==
  IF \E k \in 1..Len(norm) : IsVerseEntry(norm[k])
    THEN CHOOSE k \in 1..Len(norm) :
           /\ IsVerseEntry(norm[k])
           /\ \A j \in (k + 1)..Len(norm) : ~IsVerseEntry(norm[j])
    ELSE 0

\* C11: in clean_book_lines a loose line is space-joined onto the most
\* recently appended verse entry whenever a chapter is open, also right
\* after a chapter marker, and is never emitted as an entry of its own
\* then; only when no chapter is open does it open Chapter 1 and stay a raw
\* line of its own.
C11_ContinuationJoined ==
  [][\A ln \in CleanLines :
       (CleanReadsLine(ln) /\ IsLooseLine(ln)) =>
          /\ c_chapter = NoNumber =>
                normalized' = Append(StartChapter(normalized, 1), CleanRaw(ln))
          /\ (c_chapter # NoNumber /\ LastVerseEntry(normalized) # 0) =>
                normalized' = [normalized EXCEPT ![LastVerseEntry(normalized)] =
                                 @ \o " " \o CleanRaw(ln)]]_vars

\* a content line clean_book_lines takes for a bare verse line, "v text"
IsBareVerseLine(ln) ==
  /\ Headings[ln] = None
  /\ CleanRaw(ln) # ""
  /\ ~ChapterHeadingMatch(CleanRaw(ln))
  /\ ~VerseColonMatch(CleanRaw(ln))
  /\ VerseSimpleMatch(CleanRaw(ln))

\* the number of a bare verse line, and the entry emitted for it
BareVerseNum(ln) == ParseInt(VerseSimpleGroups(CleanRaw(ln))[1])
BareVerseEntry(ln) ==
  ToStr(BareVerseNum(ln)) \o " " \o Strip(VerseSimpleGroups(CleanRaw(ln))[2])

\* C12: in clean_book_lines a bare verse line opens Chapter 1 when no
\* chapter is open; when chapter c is open it opens chapter c+1 exactly when
\* its number is 1 and the previous verse appended in chapter c had a number
\* > 1, and otherwise opens nothing; the verse is then appended.  So verses
\* 1, 2, 1 give Chapter 1 {1, 2}, Chapter 2 {1}, and verses 1, 1 stay in one
\* chapter.
C12_ChapterInferredOnReset ==
  [][/\ \A ln \in CleanLines :
          (CleanReadsLine(ln) /\ IsBareVerseLine(ln)) =>
             IF c_chapter = NoNumber
               THEN /\ normalized' = normalized \o
                                        << "Chapter 1", BareVerseEntry(ln) >>
                    /\ c_chapter' = 1
             ELSE IF BareVerseNum(ln) = 1 /\ c_last # NoNumber /\ c_last > 1
               THEN /\ normalized' = normalized \o
                          << "Chapter " \o ToStr(c_chapter + 1),
                             BareVerseEntry(ln) >>
                    /\ c_chapter' = c_chapter + 1
             ELSE /\ normalized' = Append(normalized, BareVerseEntry(ln))
                  /\ c_chapter' = c_chapter
     /\ c_lines' = << "1 In the beginning", "2 And the earth",
                      "1 In the beginning" >>
          => normalized' = << "Chapter 1", "1 In the beginning",
                              "2 And the earth", "Chapter 2",
                              "1 In the beginning" >>
     /\ c_lines' = << "1 In the beginning", "1 In the beginning" >>
          => normalized' = << "Chapter 1", "1 In the beginning",
                              "1 In the beginning" >>]_vars

\* C12: verses 1, 2, 1 were read and the third opened Chapter 2
C12_Witness ==
  /\ c_pc = "returned"
  /\ c_lines = << "1 In the beginning", "2 And the earth",
                  "1 In the beginning" >>
  /\ c_chapter = 2
  /\ Len(normalized) = 5

(***************************************************************************)
(* Properties of split_books.                                              *)
(***************************************************************************)
\* C13: split_books returns the content of each book with the headings
\* stripped: no line that is_heading identifies as a book heading is in the
\* content of any book, whether it names another book, the current book
\* again, or follows content lines of the current book.
C13_HeadingsStripped ==
  \A b \in DOMAIN books_content :
     \A k \in 1..Len(books_content[b]) :
        Headings[books_content[b][k]] = None

\* C14: clean_book_lines is idempotent on its own output: run a second time
\* on the lines it returned, it returns exactly the same line sequence.
C14_Idempotent ==
  (c_pc = "returned" /\ c_input # AnyLines) => normalized = c_input

PerFileMode ==
  ~args.input /\ args.books_dir /\ s_pc \in {"loop", "done", "raised"}

\* main took its books from the master file and reached the Sink loop
WholeMasterMode == args.input /\ s_pc \in {"loop", "done", "raised"} /\ s_i >= 1

\* C16: in per-file mode a canon book whose .txt file is missing is skipped
\* without aborting: it gets no JSON file and no upload attempt, while every
\* book whose file exists is parsed and handed to the Sink; in whole-master
\* mode a book absent from the input is still handed to the Sink, with
\* chapters = [].
C16_MissingBookSkipped ==
  /\ PerFileMode =>
        /\ s_keys = s_files
        /\ \A k \in 1..Len(events) : events[k].book \in s_files
        /\ s_pc = "done" =>
              \A b \in s_files : (args.output_dir => Did("write", b))
                                  /\ (args.upload => Did("upload", b))
  /\ WholeMasterMode => s_keys = BookNames
  /\ m_pc = "returned" =>
        \A i \in 1..Len(BOOKS) :
           (\A k \in 1..Len(lines) :
               ~(IsVerseLine(lines[k]) /\ BookNumOf(lines[k]) = i))
           => (BOOKS[i] \in DOMAIN books /\ books[BOOKS[i]].chapters = << >>)

PlacesVerse ==
  ReadsLine /\ IsVerseLine(LineRead) /\ InRange(BOOKS, BookNumOf(LineRead) - 1)

\* the book a verse line is placed in
PlacedIn(ln) == PyIndex(BOOKS, BookNumOf(ln) - 1)

\* the last line of ls that is a verse line placed in book b (0 if none)
RECURSIVE LastVerseLineOf(_, _)
LastVerseLineOf(ls, b) ==
  IF ls = << >> THEN 0
  ELSE IF IsVerseLine(ls[Len(ls)]) /\ PlacedIn(ls[Len(ls)]) = b THEN Len(ls)
  ELSE LastVerseLineOf(SubSeq(ls, 1, Len(ls) - 1), b)

\* the verse of the line read went into the chapter object that was the
\* last of book b
JoinsOpenChapter(b) ==
  /\ Len(books'[b].chapters) = Len(books[b].chapters)
  /\ books[b].chapters # << >>
  /\ books'[b].chapters[Len(books[b].chapters)].number = ChapterNumOf(LineRead)

\* the verse of the line read went into a new chapter object of book b
OpensChapter(b) ==
  /\ Len(books'[b].chapters) = Len(books[b].chapters) + 1
  /\ books'[b].chapters[Len(books'[b].chapters)].number = ChapterNumOf(LineRead)
  /\ Len(books'[b].chapters[Len(books'[b].chapters)].verses) = 1

\* no two adjacent chapter objects of a book have the same number
NoAdjacentSameNumber(chapters) ==
  \A k \in 1..(Len(chapters) - 1) : chapters[k].number # chapters[k + 1].number

\* C18 as claimed: two consecutive verse lines of a book (no other verse
\* line of that book between them) with the same chapter number land in the
\* same chapter object, so that a book never holds two adjacent chapter
\* objects with the same number; a new chapter object is opened only when
\* the chapter number differs from that of the book's previous verse line.
C18_SameNumberSameObject ==
  [][PlacesVerse =>
       \A b \in { PlacedIn(LineRead) } :
       \A k \in { LastVerseLineOf(lines, b) } :
          /\ IF k > 0 /\ ChapterNumOf(lines[k]) = ChapterNumOf(LineRead)
               THEN JoinsOpenChapter(b)
               ELSE OpensChapter(b)
          /\ NoAdjacentSameNumber(books'[b].chapters)]_vars

\* C18 as amended: a verse line lands in the chapter object of the line
\* before it exactly when the most recent heading-or-verse line is a verse
\* line placed in the same book with the same chapter number; after a BOOK
\* heading, after a verse line of another book, at the start and when the
\* chapter number differs it opens a new chapter object, also when the
\* book's last chapter object has that number already.
C18_SameObjectUnlessReset ==
  [][PlacesVerse =>
       \A b \in { PlacedIn(LineRead) } :
       \A k \in { LastStructural(lines) } :
          IF /\ k > 0
             /\ IsVerseLine(lines[k])
             /\ PlacedIn(lines[k]) = b
             /\ ChapterNumOf(lines[k]) = ChapterNumOf(LineRead)
            THEN JoinsOpenChapter(b)
            ELSE OpensChapter(b)]_vars

\* C18: Genesis holds two adjacent chapter objects numbered 1, the second
\* opened after a verse line of Exodus
C18_Witness ==
  /\ lines = << "01:001:001 In the beginning", "02:001:001 Now these are",
                "01:001:003 And God said" >>
  /\ Len(books["Genesis"].chapters) = 2
  /\ books["Genesis"].chapters[1].number = 1
  /\ books["Genesis"].chapters[2].number = 1

(***************************************************************************)
(* Properties of the last-verse reference.                                 *)
(***************************************************************************)
\* last_verse of parse_master_numbered is unset, or refers to the last verse
\* of the last chapter object of the current book
MasterRefersToLastVerse ==
  \/ last_verse = NoVerse
  \/ /\ current_book # None
     /\ last_verse[1] = current_book
     /\ books[current_book].chapters # << >>
     /\ last_verse[2] = Len(books[current_book].chapters)
     /\ last_verse[3] >= 1
     /\ last_verse[3] =
          Len(books[current_book].chapters[last_verse[2]].verses)

\* last_verse of parse_book_txt is unset, or refers to the last verse of the
\* last chapter object
TxtRefersToLastVerse ==
  \/ t_last = NoVerse
  \/ /\ t_chapters # << >>
     /\ t_last[1] = Len(t_chapters)
     /\ t_last[2] >= 1
     /\ t_last[2] = Len(t_chapters[t_last[1]].verses)

\* the step of parse_master_numbered changes no book, or only the text of
\* the verse last_verse refers to
MasterExtendsOnlyLastVerse ==
  \/ books' = books
  \/ /\ last_verse # NoVerse
     /\ books' = [books EXCEPT
          ![last_verse[1]].chapters[last_verse[2]].verses[last_verse[3]].text =
             books'[last_verse[1]].chapters[last_verse[2]]
                                  .verses[last_verse[3]].text]

\* the step of parse_book_txt changes no chapter, or only the text of the
\* verse last_verse refers to
TxtExtendsOnlyLastVerse ==
  \/ t_chapters' = t_chapters
  \/ /\ t_last # NoVerse
     /\ t_chapters' = [t_chapters EXCEPT
          ![t_last[1]].verses[t_last[2]].text =
             t_chapters'[t_last[1]].verses[t_last[2]].text]

\* the step is parse_book_txt reading a line
TxtReadsLine == Len(t_lines') = Len(t_lines) + 1
TxtLineRead == Strip(t_lines'[Len(t_lines')])

\* the line read is no blank line, no Chapter marker and no verse line of an
\* open chapter
TxtIsContinuation ==
  /\ TxtLineRead # ""
  /\ ~ChapterMatch(TxtLineRead)
  /\ ~(VerseMatch(TxtLineRead) /\ t_chapters # << >>)

\* C19: at every step of parse_master_numbered and of parse_book_txt the
\* last-verse reference is unset or refers to the last verse of the most
\* recently opened chapter of the current book; it is unset by a BOOK
\* heading and by a Chapter marker, and leaves the earlier chapter when a
\* chapter opens or the book switches, so that a continuation line extends
\* no verse of an earlier chapter or of another book.
C19_LastVerseIsLatest ==
  [][/\ MasterRefersToLastVerse'
     /\ TxtRefersToLastVerse'
     /\ (ReadsLine /\ IsBookHeading(LineRead)) => last_verse' = NoVerse
     /\ (TxtReadsLine /\ TxtLineRead # "" /\ ChapterMatch(TxtLineRead))
           => t_last' = NoVerse
     /\ (ReadsLine /\ IsContinuation(LineRead)) =>
           (MasterRefersToLastVerse /\ MasterExtendsOnlyLastVerse)
     /\ (TxtReadsLine /\ TxtIsContinuation) =>
           (TxtRefersToLastVerse /\ TxtExtendsOnlyLastVerse)]_vars

\* C19: a continuation line read after chapter 2 was opened extended the
\* verse of chapter 2 and left the verse of chapter 1 as it was
C19_Witness ==
  /\ lines = << "01:001:001 In the beginning", "01:002:001 Thus the heavens",
                "the heaven and the earth." >>
  /\ last_verse = << "Genesis", 2, 1 >>
  /\ books["Genesis"].chapters[1].verses[1].text = "In the beginning"
  /\ books["Genesis"].chapters[2].verses[1].text =
        "Thus the heavens the heaven and the earth."

(***************************************************************************)
(* Properties of the content split_books collects.                         *)
(***************************************************************************)
\* a line that matches one of the two verse patterns
MatchesVersePattern(line) ==
  VerseColonMatch(Strip(line)) \/ VerseSimpleMatch(Strip(line))

\* seq is the beginning of longer
IsPrefix(seq, longer) ==
  Len(seq) <= Len(longer) /\ SubSeq(longer, 1, Len(seq)) = seq

\* C20: in split_books the lines before the first detected heading are in
\* no book's content; after it every line that is_heading rejects, every
\* verse line among them even when its text holds a book alias, is appended
\* once, at the end, to the content of the book most recently switched to;
\* a verse line never switches the book, and a book whose heading appears
\* again keeps its content and is appended to.
C20_ContentInOrder ==
  [][\A line \in SplitLines :
       SplitReadsLine(line) =>
          /\ MatchesVersePattern(line) => Headings[line] = None
          /\ Headings[line] = None =>
                /\ h_current' = h_current
                /\ IF h_current = None
                     THEN books_content' = books_content
                     ELSE books_content' =
                            [books_content EXCEPT ![h_current] = Append(@, line)]
          /\ h_current = None => books_content = << >>
          /\ \A b \in DOMAIN books_content :
                /\ b \in DOMAIN books_content'
                /\ IsPrefix(books_content[b], books_content'[b])]_vars

\* C20: the heading of Genesis appeared again after another book, and
\* Genesis kept the verse line it had
C20_Witness ==
  /\ h_lines = << "BOOK 01 Genesis", "1:1 The vision of Obadiah.",
                  "THE SECOND BOOK OF SAMUEL", "BOOK 01 Genesis" >>
  /\ h_current = "Genesis"
  /\ books_content["Genesis"] = << "1:1 The vision of Obadiah." >>
  /\ books_content["2 Samuel"] = << >>

(***************************************************************************)
(* The two numbered-format pipelines.                                      *)
(***************************************************************************)
\* every verse line of ls has a book number in 1..66 and no leading
\* whitespace
CanonVersesFlushLeft(ls) ==
  \A i \in 1..Len(ls) :
    NumVerseMatch(Strip(ls[i])) =>
      /\ LStrip(ls[i]) = ls[i]
      /\ ParseInt(NumVerseGroups(Strip(ls[i]))[1]) \in 1..Len(BOOKS)

\* parse_book_txt returned from the lines parse_numbered_format gave
Reparsed == m_pc = "returned" /\ t_pc = "returned" /\ t_file # AnyFile

\* C21: for every numbered input whose verse lines all have a book number in
\* 1..66 and no leading whitespace, the lines parse_numbered_format returns
\* for a book, parsed by parse_book_txt, give the chapters and verses
\* (numbers, order, text with continuations) parse_master_numbered returns
\* for that book.
C21_PipelinesAgree ==
  (Reparsed /\ CanonVersesFlushLeft(lines)) =>
     t_chapters = books[BookOfStem(t_stem)].chapters

\* C21: Genesis was parsed again from an input with a heading, a verse and
\* a continuation line, and holds the verse with the joined text
C21_Witness ==
  /\ Reparsed
  /\ CanonVersesFlushLeft(lines)
  /\ lines = << "BOOK 01 Genesis", "01:001:001 In the beginning",
                "the heaven and the earth." >>
  /\ BookOfStem(t_stem) = "Genesis"
  /\ t_file = << "Chapter 1", "1 In the beginning the heaven and the earth." >>
  /\ t_chapters = << [number |-> 1, verses |->
        << [number |-> 1,
            text |-> "In the beginning the heaven and the earth."] >>] >>

(***************************************************************************)
(* The normalized output as parse_book_txt reads it.                       *)
(***************************************************************************)
\* an emitted line that is a chapter marker, "Chapter N"
IsChapterMarker(entry) == StartsWith(entry, "Chapter ") /\ ChapterMatch(entry)

\* the file clean_book_lines' result was written to is parsed to its end
FileParsed == c_pc = "written" /\ t_pc = "returned"

\* C22: every non-empty output of clean_book_lines starts with a Chapter N
\* marker, and parse_book_txt, reading that output, places every verse
\* entry of it, in order and with its number and text, in a chapter: none
\* is dropped or joined to another verse for lack of an open chapter.
C22_MarkerFirst ==
  /\ normalized # << >> => IsChapterMarker(normalized[1])
  /\ FileParsed =>
       LET entries == SelectSeq(normalized, IsVerseEntry)
           placed == AllVerses(t_chapters)
       IN  /\ Len(placed) = Len(entries)
           /\ \A k \in 1..Len(entries) :
                 /\ placed[k].number =
                      ParseInt(VerseSimpleGroups(entries[k])[1])
                 /\ StartsWith(placed[k].text,
                               Strip(VerseSimpleGroups(entries[k])[2]))

\* C22: the content began with a loose line, Chapter 1 was opened for it,
\* and both verse entries that follow were placed in that chapter
C22_Witness ==
  /\ FileParsed
  /\ c_lines = << "the heaven and the earth.", "1 In the beginning",
                  "2 And the earth" >>
  /\ normalized = << "Chapter 1", "the heaven and the earth.",
                     "1 In the beginning", "2 And the earth" >>
  /\ Len(t_chapters) = 1
  /\ Len(t_chapters[1].verses) = 2

=============================================================================
